---- MODULE Spec2Model ----
(***************************************************************************)
(* Model of hawk/local_image_gen.py: the module-level model cache          *)
(* (_pipeline, _current_model, _model_loaded), preload_model,              *)
(* _get_pipeline, unload_model, and generate_image with its prompt         *)
(* truncation.                                                             *)
(*                                                                         *)
(* Strings are sequences of one-character strings.  Python indices are     *)
(* 0-based; the operators below keep Python's index values (rfind returns  *)
(* -1 when nothing is found, s[:k] keeps the first k characters).          *)
(***************************************************************************)
EXTENDS Integers, Sequences, FiniteSets, TLC

VARIABLES
    _pipeline,        \* module global _pipeline: None or the pipeline object
    _current_model,   \* module global _current_model: None or a model id
    _model_loaded,    \* module global _model_loaded
    heap,             \* pipeline objects that are still referenced (resident)
    loads,            \* number of from_pretrained calls started so far
    env,              \* what torch reports: [cuda, mps]
    images_dir,       \* the files present in project.images_dir
    now,              \* the clock datetime.now() reads, in seconds
    pending,          \* a request drawn at start and not yet submitted, or None
    last,             \* record of the call that just returned, until the
                      \* caller has read it: arguments, effects, result
    prev,             \* what is remembered of the call made before: the
                      \* function called and, where tracked, its model
                      \* argument and whether it did load work
    ui,               \* the Textual application: the prompt input, the
                      \* caption editor and the workers started
    image_list,       \* the ImageList widget: _images, _selected, cursor
    caption_editor,   \* the CaptionEditor screen: whether it is open, its
                      \* images, the values of its inputs, its captions
    slideshow,        \* the calls of video.create_slideshow made so far
    _log_messages     \* the in-memory log of src/hawk/logger.py

vars == <<_pipeline, _current_model, _model_loaded, heap, loads, env,
          images_dir, now, pending, last, prev, ui,
          image_list, caption_editor, slideshow, _log_messages>>

\* None, for a model id (an empty id is falsy in Python too: `model_name or SD_MODEL`)
None == <<>>

-----------------------------------------------------------------------------
(* Bounds of the model.                                                    *)

\* from_pretrained is attempted at most MaxLoads times in a behaviour
MaxLoads == 2
\* num_outputs ranges over 1..MaxOutputs
MaxOutputs == 2
\* drawn prompts are at most MAX_PROMPT_CHARS + MaxExtra characters long
MaxExtra == 2

-----------------------------------------------------------------------------
(* Python string operations.                                               *)

\* the characters str.strip() removes, among those the model draws
Whitespace == {" ", "\t"}

\* s[:k] for 0 <= k
Slice(s, k) == SubSeq(s, 1, IF k < Len(s) THEN k ELSE Len(s))

\* the 1-based position of the last character of s outside cs, 0 when none
LastOutside(s, cs) ==
    IF \A i \in 1..Len(s) : s[i] \in cs THEN 0
    ELSE CHOOSE i \in 1..Len(s) :
            s[i] \notin cs /\ \A j \in (i + 1)..Len(s) : s[j] \in cs

\* the 1-based position of the first character of s outside cs, Len(s) + 1
\* when none
FirstOutside(s, cs) ==
    IF \A i \in 1..Len(s) : s[i] \in cs THEN Len(s) + 1
    ELSE CHOOSE i \in 1..Len(s) :
            s[i] \notin cs /\ \A j \in 1..(i - 1) : s[j] \in cs

\* s.rfind(c): the 0-based index of the last c in s, -1 when there is none
rfind(s, c) ==
    IF \A i \in 1..Len(s) : s[i] # c THEN -1
    ELSE (CHOOSE i \in 1..Len(s) :
            s[i] = c /\ \A j \in (i + 1)..Len(s) : s[j] # c) - 1

\* s.rstrip(",")
rstrip_comma(s) == SubSeq(s, 1, LastOutside(s, {","}))

\* s.strip(): leading and trailing whitespace removed
strip(s) == SubSeq(s, FirstOutside(s, Whitespace), LastOutside(s, Whitespace))

-----------------------------------------------------------------------------
(* generate_image, lines 253-262: prompt truncation.                       *)

MAX_PROMPT_CHARS == 250

\* the threshold of `if last_break > 150`
MIN_BREAK == 150

\* max(truncated.rfind(","), truncated.rfind(" "))
last_break(truncated) ==
    LET c == rfind(truncated, ",")
        b == rfind(truncated, " ")
    IN  IF c > b THEN c ELSE b

\* the branch taken when last_break > 150
CutAtBreak(truncated, lb) == strip(rstrip_comma(Slice(truncated, lb)))

\* the condition of line 258
BreakUsable(lb) == lb > MIN_BREAK

\* a truncation that strips without cutting when no break is usable
TruncateWithoutHardCut(prompt) ==
    IF Len(prompt) > MAX_PROMPT_CHARS
    THEN LET truncated == Slice(prompt, MAX_PROMPT_CHARS)
             lb == last_break(truncated)
         IN  IF BreakUsable(lb)
             THEN CutAtBreak(truncated, lb)
             ELSE strip(prompt)
    ELSE prompt

\* the prompt that generate_image goes on with
TruncatePrompt(prompt) ==
    IF Len(prompt) > MAX_PROMPT_CHARS
    THEN LET truncated == Slice(prompt, MAX_PROMPT_CHARS)
             lb == last_break(truncated)
         IN  IF BreakUsable(lb)
             THEN CutAtBreak(truncated, lb)
             ELSE strip(truncated)
    ELSE prompt

-----------------------------------------------------------------------------
(* Model ids, device and dtype selection (preload_model, lines 103-119).   *)

FLUX_SCHNELL == <<"F", "L", "U", "X">>
SDXL_TURBO == <<"s", "d", "x", "l">>
LCM_DREAMSHAPER == <<"l", "c", "m", "_", "f", "l", "u">>

\* the model ids the calls are drawn from
ModelIds == {FLUX_SCHNELL, SDXL_TURBO}

\* hawk.config.SD_MODEL, the default model id
SD_MODEL == SDXL_TURBO

\* str.lower() on one character
LowerChar(ch) ==
    CASE ch = "F" -> "f"
      [] ch = "L" -> "l"
      [] ch = "U" -> "u"
      [] ch = "X" -> "x"
      [] OTHER -> ch

lower(s) == [i \in 1..Len(s) |-> LowerChar(s[i])]

\* `sub in s` for strings
Contains(s, sub) ==
    \E i \in 0..(Len(s) - Len(sub)) : SubSeq(s, i + 1, i + Len(sub)) = sub

\* "flux" in model_name, without lower()
is_flux_as_written(model_name) == Contains(model_name, <<"f", "l", "u", "x">>)

\* is_flux = "flux" in model_name.lower()
is_flux(model_name) == Contains(lower(model_name), <<"f", "l", "u", "x">>)

\* a selection that asks for MPS first
SelectDeviceMpsFirst(e, model_name) ==
    IF e.mps
    THEN [device |-> "mps",
          dtype |-> IF is_flux(model_name) THEN "bfloat16" ELSE "float16"]
    ELSE IF e.cuda
    THEN [device |-> "cuda",
          dtype |-> IF is_flux(model_name) THEN "bfloat16" ELSE "float16"]
    ELSE [device |-> "cpu", dtype |-> "float32"]

\* the if/elif/else of lines 107-119
SelectDevice(e, model_name) ==
    IF e.cuda
    THEN [device |-> "cuda",
          dtype |-> IF is_flux(model_name) THEN "bfloat16" ELSE "float16"]
    ELSE IF e.mps
    THEN [device |-> "mps",
          dtype |-> IF is_flux(model_name) THEN "bfloat16" ELSE "float16"]
    ELSE [device |-> "cpu", dtype |-> "float32"]

-----------------------------------------------------------------------------
(* The cache: the three module globals, and the objects they keep alive.   *)

\* None, for _pipeline
NoPipeline ==
    [model |-> None, serial |-> 0, device |-> "none", dtype |-> "none",
     offload |-> FALSE]

\* the cache part of the state, as the functions below read and return it
Cache ==
    [pipeline |-> _pipeline, current_model |-> _current_model,
     model_loaded |-> _model_loaded, heap |-> heap, loads |-> loads]

\* is_model_loaded()
is_model_loaded(c) == c.model_loaded /\ c.pipeline # NoPipeline

\* the test of lines 79 and 159
AlreadyLoaded(c, model_name) ==
    c.pipeline # NoPipeline /\ c.current_model = model_name

\* a cache that keeps the object it held referenced when it takes another
RebindKeepingOld(h, old, new) == h \cup ({new} \ {NoPipeline})

\* binding the global _pipeline to another object drops the last reference
\* to the object it named before
Rebind(h, old, new) == (h \ {old}) \cup ({new} \ {NoPipeline})

\* the steps of preload_model that can raise, in program order
StepNo(step) ==
    CASE step = "import" -> 1
      [] step = "weights" -> 2
      [] step = "move" -> 3
      [] step = "offload" -> 4
      [] OTHER -> 5

LoadFailures == {"none", "import", "weights", "move", "offload"}

\* step succeeded, given the step at which the load raises
Passed(fail, step) == StepNo(fail) > StepNo(step)

\* a message passed to update() or to a progress callback
Msg(text, model, device, dtype) ==
    [text |-> text, model |-> model, device |-> device, dtype |-> dtype]

AlreadyLoadedMsg == Msg("Model already loaded", None, "", "")

\* the messages preload_model passes to update(), up to the failing step
LoadMessages(model_name, cached, sel, fail) ==
    (IF cached
     THEN << Msg("Loading from cache...", model_name, "", "") >>
     ELSE << Msg("Downloading...", model_name, "", ""),
             Msg("This may take several minutes on first run...", None, "", "") >>)
    \o (IF Passed(fail, "import")
        THEN << Msg("Using", None, sel.device, sel.dtype),
                Msg("Loading model weights...", None, "", "") >>
        ELSE <<>>)
    \o (IF Passed(fail, "weights")
        THEN << Msg("Moving model to", None, sel.device, "") >>
        ELSE <<>>)
    \o (IF fail = "none" THEN << Msg("Model ready!", None, "", "") >> ELSE <<>>)

\* the except branch: the message given to the progress callback
ErrorMessage(fail) == Msg("Error", None, fail, "")

\* the work steps performed, in order
LoadWork(fail) ==
    <<"probe">>
    \o (IF Passed(fail, "import") THEN <<"device", "weights">> ELSE <<>>)
    \o (IF Passed(fail, "weights") THEN <<"move">> ELSE <<>>)

\* the object from_pretrained returns (lines 122-126): not yet on the device
LoadedPipeline(c, model_name, sel) ==
    [model |-> model_name, serial |-> c.loads + 1, device |-> "cpu",
     dtype |-> sel.dtype, offload |-> FALSE]

\* lines 121-126: from_pretrained is called; when it returns, _pipeline is
\* bound to the new object
AfterWeights(c, model_name, sel, fail) ==
    IF ~Passed(fail, "import") THEN c
    ELSE IF ~Passed(fail, "weights") THEN [c EXCEPT !.loads = c.loads + 1]
    ELSE [c EXCEPT !.pipeline = LoadedPipeline(c, model_name, sel),
                   !.heap = Rebind(c.heap, c.pipeline, LoadedPipeline(c, model_name, sel)),
                   !.loads = c.loads + 1]

\* a load that records the model id only when none was recorded
AfterMoveModelNotRecorded(c, model_name, sel, fail) ==
    IF ~Passed(fail, "move") THEN c
    ELSE [c EXCEPT !.pipeline = [c.pipeline EXCEPT !.device = sel.device],
                   !.heap = Rebind(c.heap, c.pipeline, [c.pipeline EXCEPT !.device = sel.device]),
                   !.current_model = IF c.current_model = None THEN model_name
                                     ELSE c.current_model,
                   !.model_loaded = TRUE]

\* lines 128-131: the pipeline is moved to the device, then the model id and
\* the loaded flag are recorded
AfterMove(c, model_name, sel, fail) ==
    IF ~Passed(fail, "move") THEN c
    ELSE [c EXCEPT !.pipeline = [c.pipeline EXCEPT !.device = sel.device],
                   !.heap = Rebind(c.heap, c.pipeline, [c.pipeline EXCEPT !.device = sel.device]),
                   !.current_model = model_name,
                   !.model_loaded = TRUE]

\* lines 134-135: enable_model_cpu_offload, on cuda only
AfterOffload(c, sel, fail) ==
    IF ~Passed(fail, "offload") \/ sel.device # "cuda" THEN c
    ELSE [c EXCEPT !.pipeline = [c.pipeline EXCEPT !.offload = TRUE],
                   !.heap = Rebind(c.heap, c.pipeline, [c.pipeline EXCEPT !.offload = TRUE])]

\* the result of a call that ran the load up to the step that raises
LoadResult(c, hasCb, msgs, fail) ==
    [cache |-> c,
     ret |-> (fail = "none"),
     work |-> LoadWork(fail),
     logs |-> IF fail = "none" THEN msgs ELSE Append(msgs, ErrorMessage(fail)),
     events |-> IF ~hasCb THEN <<>>
                ELSE IF fail = "none" THEN msgs
                ELSE Append(msgs, ErrorMessage(fail))]

\* a preload_model without the test of line 79: it always runs the load
PreloadNoShortcut(c, model_name, hasCb, cached, sel, fail) ==
    LoadResult(
        AfterOffload(
            AfterMove(AfterWeights(c, model_name, sel, fail),
                      model_name, sel, fail),
            sel, fail),
        hasCb, LoadMessages(model_name, cached, sel, fail), fail)

\* the body of preload_model once model_name is resolved
PreloadResolved(c, model_name, hasCb, cached, sel, fail) ==
    IF AlreadyLoaded(c, model_name)
    THEN [cache |-> c, ret |-> TRUE, work |-> <<>>,
          logs |-> <<AlreadyLoadedMsg>>,
          events |-> IF hasCb THEN <<AlreadyLoadedMsg>> ELSE <<>>]
    ELSE LoadResult(
             AfterOffload(
                 AfterMove(AfterWeights(c, model_name, sel, fail),
                           model_name, sel, fail),
                 sel, fail),
             hasCb, LoadMessages(model_name, cached, sel, fail), fail)

\* model_name or SD_MODEL
Resolve(model) == IF model = None THEN SD_MODEL ELSE model

\* preload_model(model_name, progress_callback), lines 54-144.
\*   c       the cache before the call
\*   model   the argument (None for the default)
\*   hasCb   whether a progress callback is given
\*   cached  what is_model_cached answers
\*   e       what torch reports about the devices
\*   fail    the step that raises, "none" when the load goes through
preload_model(c, model, hasCb, cached, e, fail) ==
    PreloadResolved(c, Resolve(model), hasCb, cached,
                    SelectDevice(e, Resolve(model)), fail)

\* whether a load can raise at this step: enable_model_cpu_offload is only
\* called on cuda
CanFailAt(e, model, fail) ==
    fail = "offload" => SelectDevice(e, model).device = "cuda"

\* a _get_pipeline that does not look at what preload_model returned
AfterPreloadUnchecked(r) ==
    [cache |-> r.cache, raised |-> FALSE, pipeline |-> r.cache.pipeline,
     preloads |-> 1, work |-> r.work]

\* lines 163-167: what _get_pipeline makes of the result r of preload_model
AfterPreload(r) ==
    [cache |-> r.cache, raised |-> ~r.ret,
     pipeline |-> IF r.ret THEN r.cache.pipeline ELSE NoPipeline,
     preloads |-> 1, work |-> r.work]

\* a _get_pipeline that loads the model again on every call
get_pipeline_reloading(c, model, cached, e, fail) ==
    AfterPreload(PreloadNoShortcut(c, Resolve(model), FALSE, cached,
                                   SelectDevice(e, Resolve(model)), fail))

\* _get_pipeline(model_name), lines 152-167: raised is TRUE for the RuntimeError
get_pipeline(c, model, cached, e, fail) ==
    IF AlreadyLoaded(c, Resolve(model))
    THEN [cache |-> c, raised |-> FALSE, pipeline |-> c.pipeline,
          preloads |-> 0, work |-> <<>>]
    ELSE AfterPreload(preload_model(c, Resolve(model), FALSE, cached, e, fail))

\* an unload that clears the model id but leaves _pipeline bound
unload_keeping_pipeline(c) ==
    IF c.pipeline # NoPipeline THEN [c EXCEPT !.current_model = None] ELSE c

\* an unload that resets the loaded flag when there is nothing to unload
unload_resetting_flag(c) ==
    IF c.pipeline # NoPipeline
    THEN [c EXCEPT !.pipeline = NoPipeline,
                   !.heap = Rebind(c.heap, c.pipeline, NoPipeline),
                   !.current_model = None]
    ELSE [c EXCEPT !.model_loaded = FALSE]

\* unload_model(), lines 334-351
unload_model(c) ==
    IF c.pipeline # NoPipeline
    THEN [c EXCEPT !.pipeline = NoPipeline,
                   !.heap = Rebind(c.heap, c.pipeline, NoPipeline),
                   !.current_model = None]
    ELSE c

-----------------------------------------------------------------------------
(* generate_image, lines 217-331.                                          *)

\* hawk.config.SD_INFERENCE_STEPS, the default of num_inference_steps
SD_INFERENCE_STEPS == 2

\* a table whose default is the square entry
DimensionsDefaultSquare(aspect_ratio) ==
    CASE aspect_ratio = "9:16" -> <<768, 1344>>
      [] aspect_ratio = "16:9" -> <<1344, 768>>
      [] aspect_ratio = "1:1" -> <<1024, 1024>>
      [] aspect_ratio = "4:3" -> <<1152, 896>>
      [] aspect_ratio = "3:4" -> <<896, 1152>>
      [] OTHER -> <<1024, 1024>>

\* _aspect_to_dimensions, lines 205-214
aspect_to_dimensions(aspect_ratio) ==
    CASE aspect_ratio = "9:16" -> <<768, 1344>>
      [] aspect_ratio = "16:9" -> <<1344, 768>>
      [] aspect_ratio = "1:1" -> <<1024, 1024>>
      [] aspect_ratio = "4:3" -> <<1152, 896>>
      [] aspect_ratio = "3:4" -> <<896, 1152>>
      [] OTHER -> <<768, 1344>>

\* hawk.config.TIKTOK_WIDTH and TIKTOK_HEIGHT, the size line 318 compares with
TIKTOK_WIDTH == 768

TIKTOK_HEIGHT == 1344

\* the seed argument: None, or an integer
NoSeed == -1

\* c.isalnum() or c in " -_", over the characters the model draws
SlugKeeps(ch) == ch \notin {",", "\t"}

RECURSIVE SelectChars(_)
SelectChars(s) ==
    IF s = <<>> THEN <<>>
    ELSE (IF SlugKeeps(s[1]) THEN <<s[1]>> ELSE <<>>)
         \o SelectChars(SubSeq(s, 2, Len(s)))

\* lines 323-324: the file-system-safe form of the first 30 characters
safe_prompt(prompt) ==
    LET kept == strip(SelectChars(Slice(prompt, 30)))
    IN  [i \in 1..Len(kept) |-> IF kept[i] = " " THEN "_" ELSE kept[i]]

\* a file name without the index of the image
FilenameWithoutIndex(timestamp, prompt, index) ==
    [timestamp |-> timestamp, slug |-> safe_prompt(prompt), index |-> 1]

\* line 325: f"{timestamp}_{safe_prompt}_{i+1}.png"
Filename(timestamp, prompt, index) ==
    [timestamp |-> timestamp, slug |-> safe_prompt(prompt), index |-> index]

\* what one iteration of the loop can meet:
\*   "ok"            the call with the step callback returns
\*   "no_callback"   that call raises TypeError, the call without it returns
\*   "error"         the call with the step callback raises another exception
\*   "retry_error"   TypeError, then the call without the callback raises
ImageOutcomes == {"ok", "no_callback", "error", "retry_error"}

\* generator = None, line 273
NoGenerator == None

\* lines 272-275: torch.Generator(device=device).manual_seed(seed) when a seed
\* is given; made is the number of images produced before the generator was
\* constructed
MakeGenerator(device, seed) ==
    IF seed = NoSeed THEN NoGenerator
    ELSE [device |-> device, seed |-> seed, made |-> 0]

\* a loop that constructs a generator from the seed for each image
IterationGeneratorReseeded(generator, i) ==
    IF generator = NoGenerator THEN NoGenerator
    ELSE [generator EXCEPT !.made = i - 1]

\* line 296: the generator iteration i puts into pipe_kwargs is the object
\* bound before the loop
IterationGenerator(generator, i) == generator

\* the seed a generator was made from
SeedOf(generator) ==
    IF generator = NoGenerator THEN NoSeed ELSE generator.seed

\* how many samples were drawn before image i from the generator given to
\* the call of image i, plus one
DrawOf(generator, i) ==
    IF generator = NoGenerator THEN i ELSE i - generator.made

\* one call of pipeline(**pipe_kwargs)
InferenceCall(pipeline, prompt, dims, generator, with_callback) ==
    [pipeline |-> pipeline, prompt |-> prompt, width |-> dims[1],
     height |-> dims[2], generator |-> generator, callback |-> with_callback]

\* a call of progress_callback(step, total, status)
Progress(step, text, i, n) ==
    [step |-> step, total |-> SD_INFERENCE_STEPS, text |-> text,
     image |-> i, of |-> n]

\* an iteration that gives up when the call with the callback raises
IterationCallsWithoutRetry(pipeline, prompt, dims, generator, outcome) ==
    << InferenceCall(pipeline, prompt, dims, generator, TRUE) >>

\* the calls iteration i makes, lines 305-313
IterationCalls(pipeline, prompt, dims, generator, outcome) ==
    IF outcome \in {"ok", "error"}
    THEN << InferenceCall(pipeline, prompt, dims, generator, TRUE) >>
    ELSE << InferenceCall(pipeline, prompt, dims, generator, TRUE),
            InferenceCall(pipeline, prompt, dims, generator, FALSE) >>

\* the progress events iteration i emits, lines 288-289, 282-285, 311-312
IterationProgress(i, n, outcome) ==
    << Progress(0, "Generating image", i, n) >>
    \o (IF outcome = "ok"
        THEN [k \in 1..SD_INFERENCE_STEPS |-> Progress(k, "Step", i, n)]
        ELSE IF outcome \in {"no_callback", "retry_error"}
        THEN << Progress(1, "Generating... (no step progress for this model)", i, n) >>
        ELSE <<>>)

\* one thing generate_image does that can be observed from outside, in the
\* order of the program: the construction of the generator, a call of the
\* progress callback, the start of an inference call, the write of a file
Event(kind, i, item) == [kind |-> kind, image |-> i, item |-> item]

\* an iteration that starts the inference before its pre-step event
IterationTimelineCallFirst(i, made, events) ==
    << Event("call", i, made[1]), Event("progress", i, events[1]) >>
    \o [k \in 1..(Len(events) - 1) |-> Event("progress", i, events[k + 1])]
    \o [k \in 1..(Len(made) - 1) |-> Event("call", i, made[k + 1])]

\* the order of the calls and the progress events of iteration i, lines
\* 288-313: the pre-step event, the call with the step callback, the step
\* events it emits or the coarse event of the except branch, then the call
\* without the callback
IterationTimeline(i, made, events) ==
    << Event("progress", i, events[1]), Event("call", i, made[1]) >>
    \o [k \in 1..(Len(events) - 1) |-> Event("progress", i, events[k + 1])]
    \o [k \in 1..(Len(made) - 1) |-> Event("call", i, made[k + 1])]

\* result.images[0] of an inference call that returns: the picture depends
\* on the pipeline, the prompt, the size asked for and the random draws. A
\* seeded generator (lines 272-275) is made once per generate_image call and
\* gives its draw-th sample to the draw-th image; without a seed the draws
\* come from the global generator, whose state is entropy. size is the
\* size the model produced.
Sample(call, draw, entropy, size) ==
    [model |-> call.pipeline.model, device |-> call.pipeline.device,
     dtype |-> call.pipeline.dtype, prompt |-> call.prompt,
     asked |-> <<call.width, call.height>>,
     noise |-> [seed |-> SeedOf(call.generator),
                global |-> IF call.generator = NoGenerator THEN entropy ELSE 0,
                draw |-> draw],
     width |-> size[1], height |-> size[2], resized |-> FALSE]

\* a resize that does not look at the aspect ratio
ResizeAnyRatio(image, aspect_ratio) ==
    IF image.width # TIKTOK_WIDTH \/ image.height # TIKTOK_HEIGHT
    THEN [image EXCEPT !.width = TIKTOK_WIDTH, !.height = TIKTOK_HEIGHT,
                       !.resized = TRUE]
    ELSE image

\* lines 318-320
Resize(image, aspect_ratio) ==
    IF aspect_ratio = "9:16"
       /\ (image.width # TIKTOK_WIDTH \/ image.height # TIKTOK_HEIGHT)
    THEN [image EXCEPT !.width = TIKTOK_WIDTH, !.height = TIKTOK_HEIGHT,
                       !.resized = TRUE]
    ELSE image

\* image.save(filepath, "PNG"), line 328: the file at path is created or
\* overwritten
WriteFile(files, path, image) ==
    {f \in files : f.path # path} \cup {[path |-> path, image |-> image]}

\* the paths in a sequence
Paths(saved) == {saved[i] : i \in 1..Len(saved)}

\* an iteration that, failing, removes the files of the earlier ones
IterationFailedRollingBack(acc, calls, progress, timeline) ==
    [acc EXCEPT !.raised = TRUE, !.calls = calls, !.progress = progress,
                !.timeline = timeline,
                !.files = {f \in acc.files : f.path \notin Paths(acc.saved)}]

\* an iteration whose inference raises: the exception leaves the loop
IterationFailed(acc, calls, progress, timeline) ==
    [acc EXCEPT !.raised = TRUE, !.calls = calls, !.progress = progress,
                !.timeline = timeline]

\* an iteration that saves its image, lines 315-329
IterationDone(acc, calls, progress, timeline, i, path, image) ==
    [acc EXCEPT !.calls = calls, !.progress = progress,
                !.timeline = Append(timeline, Event("write", i, path)),
                !.files = WriteFile(acc.files, path, image),
                !.saved = Append(acc.saved, path),
                !.images = Append(acc.images, image)]

\* the loop of lines 287-329 from iteration i on; acc is what the earlier
\* iterations did, sizes[i] the size of the image the model produces in
\* iteration i
RECURSIVE GenerateLoop(_, _, _, _, _, _, _, _, _, _, _, _)
GenerateLoop(i, n, pipeline, prompt, aspect_ratio, dims, generator, timestamp, outcomes, sizes, entropy, acc) ==
    IF i > n THEN acc
    ELSE LET outcome == outcomes[i]
             given == IterationGenerator(generator, i)
             made == IterationCalls(pipeline, prompt, dims, given, outcome)
             events == IterationProgress(i, n, outcome)
             calls == acc.calls \o made
             progress == acc.progress \o events
             timeline == acc.timeline \o IterationTimeline(i, made, events)
             path == Filename(timestamp, prompt, i)
             image == Resize(Sample(made[Len(made)], DrawOf(given, i),
                                    entropy, sizes[i]),
                             aspect_ratio)
         IN  IF outcome \in {"error", "retry_error"}
             THEN IterationFailed(acc, calls, progress, timeline)
             ELSE GenerateLoop(i + 1, n, pipeline, prompt, aspect_ratio, dims,
                               generator, timestamp, outcomes, sizes, entropy,
                               IterationDone(acc, calls, progress, timeline,
                                             i, path, image))

\* lines 269-331: generate_image from the pipeline on; got is what
\* _get_pipeline did and sanitized the prompt after truncation
GenerateWith(got, sanitized, files, clock, num_outputs, aspect_ratio, seed, outcomes, sizes, entropy) ==
    IF got.raised
    THEN [raised |-> TRUE, calls |-> <<>>, progress |-> <<>>,
          generators |-> <<>>, timeline |-> <<>>,
          files |-> files, saved |-> <<>>, images |-> <<>>]
    ELSE LET generator == MakeGenerator(got.pipeline.device, seed)
             constructed == IF generator = NoGenerator THEN <<>>
                            ELSE << generator >>
         IN  GenerateLoop(1, num_outputs, got.pipeline, sanitized,
                          aspect_ratio, aspect_to_dimensions(aspect_ratio),
                          generator, clock, outcomes, sizes, entropy,
                          [raised |-> FALSE, calls |-> <<>>,
                           progress |-> <<>>, generators |-> constructed,
                           timeline |-> [k \in 1..Len(constructed) |->
                                           Event("generator", 0, constructed[k])],
                           files |-> files, saved |-> <<>>, images |-> <<>>])

\* line 288, 284, 311: "if progress_callback" is false, the event is not
\* emitted
IsNotProgress(ev) == ev.kind # "progress"

\* what generate_image returns or raises, and what it leaves behind
GenerateResult(got, sanitized, hasCb, done) ==
    [cache |-> got.cache,
     raised |-> done.raised,
     prompt |-> sanitized,
     preloads |-> got.preloads,
     work |-> got.work,
     calls |-> done.calls,
     progress |-> IF hasCb THEN done.progress ELSE <<>>,
     generators |-> done.generators,
     timeline |-> IF hasCb THEN done.timeline
                  ELSE SelectSeq(done.timeline, IsNotProgress),
     files |-> done.files,
     written |-> done.saved,
     images |-> done.images,
     saved |-> IF done.raised THEN <<>> ELSE done.saved]

\* generate_image(project, prompt, num_outputs, aspect_ratio, seed, model,
\*                progress_callback=...), lines 217-331.
\*   c, files, clock   the cache, the images directory and the time before
\*   hasCb             whether a progress callback is given
\*   cached, e, fail   as for preload_model, for the load _get_pipeline does
\*   outcomes          what each iteration of the loop meets
\*   sizes, entropy    the sizes of the images the model produces, and the
\*                     state of the global random generator
generate_image(c, files, clock, prompt, num_outputs, aspect_ratio, seed, model, hasCb, cached, e, fail, outcomes, sizes, entropy) ==
    LET sanitized == TruncatePrompt(prompt)
        got == get_pipeline(c, model, cached, e, fail)
        done == GenerateWith(got, sanitized, files, clock, num_outputs,
                             aspect_ratio, seed, outcomes, sizes, entropy)
    IN  GenerateResult(got, sanitized, hasCb, done)

-----------------------------------------------------------------------------
(* imgcat, lines 354-374. A string is a sequence of characters, ESC and   *)
(* BEL standing for \033 and \007; the bytes of a file are a sequence of   *)
(* numbers in 0..255.                                                      *)

DigitChars == << "0", "1", "2", "3", "4", "5", "6", "7", "8", "9" >>

\* the digits of n >= 0, most significant first
RECURSIVE Digits(_)
Digits(n) ==
    IF n < 10 THEN << DigitChars[n + 1] >>
    ELSE Append(Digits(n \div 10), DigitChars[(n % 10) + 1])

\* the text an f-string puts for the int n
str_int(n) == IF n < 0 THEN << "-" >> \o Digits(0 - n) ELSE Digits(n)

\* the alphabet of base64.b64encode
B64Chars ==
    << "A", "B", "C", "D", "E", "F", "G", "H", "I", "J", "K", "L", "M", "N", "O", "P",
       "Q", "R", "S", "T", "U", "V", "W", "X", "Y", "Z", "a", "b", "c", "d", "e", "f",
       "g", "h", "i", "j", "k", "l", "m", "n", "o", "p", "q", "r", "s", "t", "u", "v",
       "w", "x", "y", "z", "0", "1", "2", "3", "4", "5", "6", "7", "8", "9", "+", "/" >>

\* the four characters for a group of one, two or three bytes
EncodeGroup(g) ==
    LET n == g[1] * 65536
             + (IF Len(g) >= 2 THEN g[2] * 256 ELSE 0)
             + (IF Len(g) >= 3 THEN g[3] ELSE 0)
    IN  << B64Chars[(n \div 262144) + 1],
           B64Chars[((n \div 4096) % 64) + 1],
           IF Len(g) >= 2 THEN B64Chars[((n \div 64) % 64) + 1] ELSE "=",
           IF Len(g) >= 3 THEN B64Chars[(n % 64) + 1] ELSE "=" >>

\* an encoder that leaves the padding out
RECURSIVE b64encode_unpadded(_)
b64encode_unpadded(data) ==
    IF data = <<>> THEN <<>>
    ELSE IF Len(data) <= 3
    THEN SelectSeq(EncodeGroup(data), LAMBDA ch : ch # "=")
    ELSE EncodeGroup(SubSeq(data, 1, 3))
         \o b64encode_unpadded(SubSeq(data, 4, Len(data)))

\* base64.b64encode(image_data).decode("ascii"), line 370
RECURSIVE b64encode(_)
b64encode(data) ==
    IF data = <<>> THEN <<>>
    ELSE IF Len(data) <= 3 THEN EncodeGroup(data)
    ELSE EncodeGroup(SubSeq(data, 1, 3)) \o b64encode(SubSeq(data, 4, Len(data)))

\* lines 367-368: the bytes of the file at image_path
ReadBytes(files, image_path) == (CHOOSE f \in files : f.path = image_path).bytes

\* "]1337;File=inline=1;width=", line 374
InlinePrefix ==
    << "]", "1", "3", "3", "7", ";", "F", "i", "l", "e", "=", "i", "n", "l", "i", "n",
       "e", "=", "1", ";", "w", "i", "d", "t", "h", "=" >>

\* an imgcat whose sequence ends without BEL
imgcat_unterminated(files, image_path, width) ==
    << "ESC" >> \o InlinePrefix \o str_int(width) \o << ":" >>
    \o b64encode(ReadBytes(files, image_path))

\* imgcat(image_path, width), lines 354-374
imgcat(files, image_path, width) ==
    << "ESC" >> \o InlinePrefix \o str_int(width) \o << ":" >>
    \o b64encode(ReadBytes(files, image_path)) \o << "BEL" >>

-----------------------------------------------------------------------------
(* Inputs the calls are drawn from.                                        *)

\* n copies of the letter "a"
Fill(n) == [i \in 1..n |-> "a"]

\* s with the characters of pat written over it from 0-based index at on
Patch(s, at, pat) ==
    [i \in 1..Len(s) |->
        IF i - 1 >= at /\ i - 1 < at + Len(pat) THEN pat[i - at] ELSE s[i]]

ShortPrompt == <<"a", " ", "c", "a", "t">>

\* every sequence of n iteration outcomes in which nothing follows a failure
OutcomeSeqs(n) ==
    {o \in [1..n -> ImageOutcomes] :
        \A i \in 1..n : o[i] \in {"error", "retry_error"} =>
            \A j \in (i + 1)..n : o[j] = "ok"}

\* the model produces every image in the size asked for
ExactSizes(aspect_ratio, n) == [i \in 1..n |-> aspect_to_dimensions(aspect_ratio)]

NoRequest == [some |-> FALSE, prompt |-> <<>>]

\* what the record of the next call keeps of a call: the function called,
\* its model argument, whether it did load work, and what it returned
Summary(op, model, work, ret) ==
    [op |-> op, model |-> model, worked |-> work # <<>>, ret |-> ret]

\* the record of a call, with the fields a call does not use left empty;
\* pre is the cache before the call, before the summary of the call made
\* before this one
CallRecord(op, model, prompt, ret) ==
    [op |-> op, model |-> model, arg_prompt |-> prompt, ret |-> ret,
     hasCb |-> FALSE, fail |-> "none", preloads |-> 0, work |-> <<>>,
     events |-> <<>>, prompt |-> <<>>, num_outputs |-> 0, calls |-> <<>>,
     progress |-> <<>>, saved |-> <<>>, pre |-> Cache, before |-> prev,
     aspect_ratio |-> "", seed |-> NoSeed, outcomes |-> <<>>, sizes |-> <<>>,
     written |-> <<>>, images |-> <<>>, pre_files |-> images_dir,
     width |-> 0, data |-> <<>>, generators |-> <<>>, timeline |-> <<>>]

\* no call has returned since the caller last read a result
Idle ==
    [CallRecord("idle", None, <<>>, TRUE) EXCEPT
        !.pre = [pipeline |-> NoPipeline, current_model |-> None,
                 model_loaded |-> FALSE, heap |-> {}, loads |-> 0],
        !.pre_files = {},
        !.before = Summary("idle", None, <<>>, TRUE)]

SetCache(c) ==
    /\ _pipeline' = c.pipeline
    /\ _current_model' = c.current_model
    /\ _model_loaded' = c.model_loaded
    /\ heap' = c.heap
    /\ loads' = c.loads

-----------------------------------------------------------------------------
(* The calls a client of the module makes, one action per call.            *)

\* whether the environment's answers (cached, fail) fit the call: a call that
\* finds its model loaded asks the environment nothing, and a load is
\* attempted at most MaxLoads times
Feasible(model, cached, fail) ==
    IF AlreadyLoaded(Cache, Resolve(model))
    THEN fail = "none" /\ ~cached
    ELSE loads < MaxLoads /\ CanFailAt(env, Resolve(model), fail)

\* preload_model(model, progress_callback)
PreloadModel(model, hasCb, cached, fail) ==
    /\ last.op = "idle"
    /\ Feasible(model, cached, fail)
    /\ \E r \in {preload_model(Cache, model, hasCb, cached, env, fail)} :
        /\ SetCache(r.cache)
        /\ last' = [CallRecord("preload_model", model, <<>>, r.ret) EXCEPT
                        !.hasCb = hasCb, !.fail = fail, !.work = r.work,
                        !.events = r.events]
    /\ UNCHANGED <<env, images_dir, now, pending, ui,
                   image_list, caption_editor, slideshow, _log_messages>>

\* _get_pipeline(model); the pipeline it returns is recorded as the one call
\* of last.calls
GetPipeline(model, cached, fail) ==
    /\ last.op = "idle"
    /\ Feasible(model, cached, fail)
    /\ \E r \in {get_pipeline(Cache, model, cached, env, fail)} :
        /\ SetCache(r.cache)
        /\ last' = [CallRecord("_get_pipeline", model, <<>>, ~r.raised) EXCEPT
                        !.fail = fail, !.work = r.work,
                        !.preloads = r.preloads,
                        !.calls = IF r.raised THEN <<>>
                                  ELSE << InferenceCall(r.pipeline, <<>>, <<0, 0>>, NoGenerator, FALSE) >>]
    /\ UNCHANGED <<env, images_dir, now, pending, ui,
                   image_list, caption_editor, slideshow, _log_messages>>

\* unload_model()
UnloadModel ==
    /\ last.op = "idle"
    /\ SetCache(unload_model(Cache))
    /\ last' = CallRecord("unload_model", None, <<>>, TRUE)
    /\ UNCHANGED <<env, images_dir, now, pending, ui,
                   image_list, caption_editor, slideshow, _log_messages>>

\* generate_image(project, prompt, num_outputs, aspect_ratio, seed, model, ...)
GenerateImage(prompt, num_outputs, aspect_ratio, seed, model, hasCb, cached, fail, outcomes, sizes, entropy) ==
    /\ last.op = "idle"
    /\ Feasible(model, cached, fail)
    /\ fail # "none" => \A i \in 1..num_outputs : outcomes[i] = "ok"
    /\ \E r \in {generate_image(Cache, images_dir, now, prompt, num_outputs, aspect_ratio, seed, model, hasCb, cached, env, fail, outcomes, sizes, entropy)} :
        /\ SetCache(r.cache)
        /\ images_dir' = r.files
        /\ last' = [CallRecord("generate_image", model, prompt, ~r.raised) EXCEPT
                        !.hasCb = hasCb, !.fail = fail, !.work = r.work,
                        !.preloads = r.preloads, !.prompt = r.prompt,
                        !.num_outputs = num_outputs, !.calls = r.calls,
                        !.progress = r.progress, !.saved = r.saved,
                        !.aspect_ratio = aspect_ratio, !.seed = seed,
                        !.outcomes = outcomes, !.sizes = sizes,
                        !.written = r.written, !.images = r.images,
                        !.generators = r.generators,
                        !.timeline = r.timeline]
    /\ UNCHANGED <<env, now, ui,
                   image_list, caption_editor, slideshow, _log_messages>>

\* imgcat(image_path, width) on a file of the images directory; the record
\* keeps the bytes the file held, and the string returned as ret
Imgcat(image_path, width) ==
    /\ last.op = "idle"
    /\ image_path \in {f.path : f \in images_dir}
    /\ last' = [CallRecord("imgcat", None, <<>>, imgcat(images_dir, image_path, width)) EXCEPT
                    !.width = width,
                    !.data = ReadBytes(images_dir, image_path)]
    /\ UNCHANGED <<_pipeline, _current_model, _model_loaded, heap, loads, env,
                   images_dir, now, pending, ui,
                   image_list, caption_editor, slideshow, _log_messages>>

\* the caller has read the result of the call: its record is dropped
Return ==
    /\ last.op # "idle"
    /\ last' = Idle
    /\ UNCHANGED <<_pipeline, _current_model, _model_loaded, heap, loads, env,
                   images_dir, now, pending, prev, ui,
                   image_list, caption_editor, slideshow, _log_messages>>

\* the clock advances
Tick ==
    /\ now' = now + 1
    /\ UNCHANGED <<_pipeline, _current_model, _model_loaded, heap, loads, env,
                   images_dir, pending, last, prev, ui,
                   image_list, caption_editor, slideshow, _log_messages>>

\* the next call's record will name the function this call was made to
TrackOp == prev' = Summary(last'.op, None, <<>>, TRUE)

\* the next call's record will also keep this call's model and load work
TrackCall == prev' = Summary(last'.op, last'.model, last'.work, last'.ret)

-----------------------------------------------------------------------------
(* The Textual application, src/hawk/app.py. _do_generate and              *)
(* _create_video_with_captions are thread workers started with             *)
(* exclusive=True: starting one cancels the workers started before. A      *)
(* worker whose thread has not started yet never runs; the thread of one   *)
(* that has started is not stopped, and neither method looks at            *)
(* is_cancelled. call_from_thread blocks the worker until the UI thread    *)
(* has run the callback.                                                   *)
(* A worker is at one of these places:                                     *)
(*   "queued"     created, its thread not started                          *)
(*   "cancelled"  cancelled before its thread started                      *)
(*   "show"       line 440, waiting for _show_generating                   *)
(*   "generate"   lines 457-461, inside image_generator.generate_image     *)
(*   "progress"   lines 445-453, progress_update waiting for set_status    *)
(*   "report"     line 462, waiting for refresh_images                     *)
(*   "generated"  line 467, waiting for set_status                         *)
(*   "focus"      line 468, waiting for _focus_images                      *)
(*   "error"      line 475, waiting for set_status                         *)
(*   "hide"       line 477, waiting for _hide_generating                   *)
(*   "status"     line 543, waiting for set_status                         *)
(*   "create"     lines 550-561, inside video.create_slideshow             *)
(*   "saved", "failed"  lines 557 and 564, waiting for set_status          *)
(*   "done"       returned                                                 *)
(* At "queued", "generate" and "create" the thread of the worker runs; at  *)
(* the other places before "done" it is blocked in call_from_thread.       *)

\* the most workers started in a run
MaxWorkers == 3

\* the application after on_mount: the prompt input enabled and focused, no
\* modal screen, no worker; status is the kind of the text in the status
\* bar, list the workers whose images the image list shows
Mounted ==
    [disabled |-> FALSE, editor |-> FALSE, workers |-> <<>>,
     status |-> "ready", focus |-> "prompt", list |-> {}]

\* a worker: saved says that its generate_image wrote its images, delivered
\* what the status bar was given of its outcome
Worker(kind) ==
    [kind |-> kind, pc |-> "queued", cancelled |-> FALSE, saved |-> FALSE,
     delivered |-> "none"]

\* a cancel that stops the thread of a running worker
CancelStoppingThread(w) ==
    IF w.pc \in {"done", "cancelled"} THEN w
    ELSE [w EXCEPT !.pc = "cancelled", !.cancelled = TRUE]

\* Worker.cancel(): a worker not yet running is dropped, a running thread
\* is only marked
Cancel(w) ==
    IF w.pc = "queued" THEN [w EXCEPT !.pc = "cancelled", !.cancelled = TRUE]
    ELSE IF w.pc \in {"done", "cancelled"} THEN w
    ELSE [w EXCEPT !.cancelled = TRUE]

\* run_worker(..., exclusive=True, thread=True), the @work of lines 437 and
\* 540: the workers of the group are cancelled and the new one is created
run_worker(u, kind) ==
    [u EXCEPT !.workers =
        Append([i \in 1..Len(u.workers) |-> Cancel(u.workers[i])], Worker(kind))]

\* a _do_generate without the finally of line 476: after the error status
\* the worker returns
AfterCallbackNoFinally(w) ==
    CASE w.pc = "show" -> "generate"
      [] w.pc = "progress" -> "generate"
      [] w.pc = "report" -> "generated"
      [] w.pc = "generated" -> "focus"
      [] w.pc = "focus" -> "hide"
      [] w.pc = "error" -> "done"
      [] w.pc = "hide" -> "done"
      [] w.pc = "status" -> "create"
      [] w.pc = "saved" -> "done"
      [] w.pc = "failed" -> "done"
      [] OTHER -> w.pc

\* where worker w goes when the UI thread has run the callback it waits for
AfterCallback(w) ==
    CASE w.pc = "show" -> "generate"
      [] w.pc = "progress" -> "generate"
      [] w.pc = "report" -> "generated"
      [] w.pc = "generated" -> "focus"
      [] w.pc = "focus" -> "hide"
      [] w.pc = "error" -> "hide"
      [] w.pc = "hide" -> "done"
      [] w.pc = "status" -> "create"
      [] w.pc = "saved" -> "done"
      [] w.pc = "failed" -> "done"
      [] OTHER -> w.pc

\* the places at which a worker is blocked in call_from_thread
Marshaled ==
    {"show", "progress", "report", "generated", "focus", "error", "hide",
     "status", "saved", "failed"}

\* what the callback worker w waits for does to the prompt input:
\* _show_generating (line 487) and _hide_generating (line 493)
InputAfterCallback(u, w) ==
    CASE w.pc = "show" -> TRUE
      [] w.pc = "hide" -> FALSE
      [] OTHER -> u.disabled

\* what it does to the status bar: set_status, directly or in
\* _show_generating (line 483) and refresh_images (line 356)
StatusAfterCallback(u, w) ==
    CASE w.pc = "show" -> "generating"
      [] w.pc = "progress" -> "progress"
      [] w.pc = "report" -> "listed"
      [] w.pc = "generated" -> "generated"
      [] w.pc = "error" -> "error"
      [] w.pc = "status" -> "creating"
      [] w.pc = "saved" -> "saved"
      [] w.pc = "failed" -> "failed"
      [] OTHER -> u.status

\* what it does to the focus: _focus_images (line 497)
FocusAfterCallback(u, w) ==
    IF w.pc = "focus" THEN "images" ELSE u.focus

\* what it does to the image list: refresh_images (lines 353-354) lists the
\* images that are on disk
ListAfterCallback(u, w) ==
    IF w.pc = "report"
    THEN {i \in 1..Len(u.workers) : u.workers[i].saved}
    ELSE u.list

\* what the status bar was given of the outcome of w, lines 467 and 475
DeliveryAfterCallback(w) ==
    CASE w.pc = "generated" -> "result"
      [] w.pc = "error" -> "error"
      [] OTHER -> w.delivered

UiUnchanged ==
    UNCHANGED <<_pipeline, _current_model, _model_loaded, heap, loads, env,
                images_dir, now, pending, last, prev,
                image_list, caption_editor, slideshow, _log_messages>>

\* on_input_submitted, lines 424-430: Enter in the prompt input, which an
\* input that is disabled, without the focus or under the caption editor
\* does not receive
on_input_submitted(value) ==
    /\ ~ui.disabled
    /\ ~ui.editor
    /\ ui.focus = "prompt"
    /\ Len(ui.workers) < MaxWorkers
    /\ ui' = IF strip(value) # <<>> THEN run_worker(ui, "generate") ELSE ui
    /\ UiUnchanged

\* action_focus_prompt, lines 393-395 (ctrl+g)
action_focus_prompt ==
    /\ ~ui.editor
    /\ ui.focus # "prompt"
    /\ ui' = [ui EXCEPT !.focus = "prompt"]
    /\ UiUnchanged

\* the thread of worker i starts and runs to its first call_from_thread
WorkerStarts(i) ==
    /\ i \in 1..Len(ui.workers)
    /\ ui.workers[i].pc = "queued"
    /\ ui' = [ui EXCEPT !.workers[i].pc =
                IF ui.workers[i].kind = "generate" THEN "show" ELSE "status"]
    /\ UiUnchanged

\* the UI thread runs the callback worker i passed to call_from_thread
RunCallback(i) ==
    /\ i \in 1..Len(ui.workers)
    /\ ui.workers[i].pc \in Marshaled
    /\ ui' = [ui EXCEPT !.disabled = InputAfterCallback(ui, ui.workers[i]),
                        !.status = StatusAfterCallback(ui, ui.workers[i]),
                        !.focus = FocusAfterCallback(ui, ui.workers[i]),
                        !.list = ListAfterCallback(ui, ui.workers[i]),
                        !.workers[i].delivered = DeliveryAfterCallback(ui.workers[i]),
                        !.workers[i].pc = AfterCallback(ui.workers[i])]
    /\ UiUnchanged

\* progress_update, lines 442-453: generate_image calls the progress callback
\* of worker i, which passes set_status to call_from_thread
progress_update(i) ==
    /\ i \in 1..Len(ui.workers)
    /\ ui.workers[i].pc = "generate"
    /\ ui' = [ui EXCEPT !.workers[i].pc = "progress"]
    /\ UiUnchanged

\* a worker that writes the status bar itself when generate_image is over
GenerateReturnsSettingStatus(u, i, ok) ==
    [u EXCEPT !.workers[i].pc = IF ok THEN "report" ELSE "error",
              !.workers[i].saved = ok,
              !.status = IF ok THEN "generated" ELSE "error"]

\* lines 457-476 in the thread of worker i: generate_image has written its
\* images and returns (ok), or raises; the worker goes on to line 462 or
\* to line 475
GenerateReturns(u, i, ok) ==
    [u EXCEPT !.workers[i].pc = IF ok THEN "report" ELSE "error",
              !.workers[i].saved = ok]

\* image_generator.generate_image returns (ok) or raises, lines 457-476
GenerateEnds(i, ok) ==
    /\ i \in 1..Len(ui.workers)
    /\ ui.workers[i].pc = "generate"
    /\ ui' = GenerateReturns(ui, i, ok)
    /\ UiUnchanged

\* action_create_video with images selected, lines 514-538: the caption
\* editor is pushed
action_create_video ==
    /\ ~ui.editor
    /\ Len(ui.workers) < MaxWorkers
    /\ ui' = [ui EXCEPT !.editor = TRUE]
    /\ UiUnchanged

\* handle_captions, lines 529-536: the editor is dismissed, with None
\* (create = FALSE) or with a list of captions
handle_captions(create) ==
    /\ ui.editor
    /\ ui' = IF create
             THEN [run_worker(ui, "video") EXCEPT !.editor = FALSE]
             ELSE [ui EXCEPT !.editor = FALSE, !.status = "cancelled"]
    /\ UiUnchanged

\* video.create_slideshow returns (ok) or raises, lines 550-564
VideoEnds(i, ok) ==
    /\ i \in 1..Len(ui.workers)
    /\ ui.workers[i].pc = "create"
    /\ ui' = [ui EXCEPT !.workers[i].pc = IF ok THEN "saved" ELSE "failed"]
    /\ UiUnchanged

-----------------------------------------------------------------------------
(* The ImageList widget, src/hawk/app.py lines 80-151. Indices are 0-based *)
(* as in the code: image k of the list is images[k + 1] here.              *)

\* ImageList.__init__, lines 96-99, with cursor = reactive(0)
EmptyImageList == [images |-> <<>>, selected |-> {}, cursor |-> 0]

\* range(len(self._images))
Indices(l) == 0..(Len(l.images) - 1)

\* a set_images that keeps the selection and the cursor of the list before
set_images_keeping_state(l, images) == [l EXCEPT !.images = images]

\* set_images, lines 101-106
set_images(l, images) ==
    [images |-> images, selected |-> {}, cursor |-> 0]

\* action_move_up, lines 108-112
action_move_up(l) ==
    IF l.images # <<>> /\ l.cursor > 0
    THEN [l EXCEPT !.cursor = l.cursor - 1]
    ELSE l

\* action_move_down, lines 114-118
action_move_down(l) ==
    IF l.images # <<>> /\ l.cursor < Len(l.images) - 1
    THEN [l EXCEPT !.cursor = l.cursor + 1]
    ELSE l

\* action_toggle_select, lines 126-133
action_toggle_select(l) ==
    IF l.images # <<>> /\ 0 <= l.cursor /\ l.cursor < Len(l.images)
    THEN IF l.cursor \in l.selected
         THEN [l EXCEPT !.selected = l.selected \ {l.cursor}]
         ELSE [l EXCEPT !.selected = l.selected \cup {l.cursor}]
    ELSE l

\* action_select_all, lines 135-138
action_select_all(l) == [l EXCEPT !.selected = Indices(l)]

\* clear_selection, lines 140-143
clear_selection(l) == [l EXCEPT !.selected = {}]

\* the paths action_delete_selected passes to delete_image, lines 506-509:
\* images[idx] for the selected idx below len(images)
DeleteTargets(l) ==
    {l.images[idx + 1] : idx \in {k \in l.selected : k < Len(l.images)}}

\* what get_project_images may return (line 353): the files of the images
\* directory, each once, in an order this module does not choose
Listings(files) ==
    {q \in UNION {[1..n -> {f.path : f \in files}] : n \in {Cardinality(files)}} :
        \A i, j \in 1..Len(q) : i # j => q[i] # q[j]}

-----------------------------------------------------------------------------
(* Video creation: action_create_video and _create_video_with_captions of  *)
(* src/hawk/app.py, and the CaptionEditor of src/hawk/screens/captions.py. *)

\* an optional list of captions: Python's None, or a list
Nothing == [some |-> FALSE, list |-> <<>>]
Just(list) == [some |-> TRUE, list |-> list]

\* no caption editor on the screen stack
NoEditor == [open |-> FALSE, images |-> <<>>, inputs |-> <<>>, captions |-> <<>>]

\* CaptionEditor(images), lines 96-120: one empty caption and one empty Input
\* for each image
CaptionEditor(images) ==
    [open |-> TRUE, images |-> images,
     inputs |-> [i \in 1..Len(images) |-> <<>>],
     captions |-> [i \in 1..Len(images) |-> <<>>]]

\* [images[i] for i in sorted(selected)], line 526
RECURSIVE SortedPaths(_, _)
SortedPaths(l, from) ==
    IF from >= Len(l.images) THEN <<>>
    ELSE (IF from \in l.selected THEN << l.images[from + 1] >> ELSE <<>>)
         \o SortedPaths(l, from + 1)

selected_paths(l) == SortedPaths(l, 0)

\* _collect_captions, lines 166-173
collect_captions(ed) ==
    [ed EXCEPT !.captions = [i \in 1..Len(ed.images) |-> strip(ed.inputs[i])]]

\* the three buttons, and the keys bound to action_cancel and action_create
\* (lines 90-91)
Dismissals == {"create-btn", "skip-btn", "cancel-btn", "escape", "ctrl+enter"}

\* on_button_pressed, lines 156-164, action_cancel and action_create, lines
\* 175-180: what the editor is dismissed with
DismissedWith(ed, button) ==
    CASE button \in {"create-btn", "ctrl+enter"} -> Just(collect_captions(ed).captions)
      [] button = "skip-btn" -> Just(<<>>)
      [] OTHER -> Nothing

\* line 549: any(c.strip() for c in captions) if captions else False
has_captions(captions) ==
    /\ captions # <<>>
    /\ \E i \in 1..Len(captions) : strip(captions[i]) # <<>>

\* a worker that passes the captions it was given whenever there are some
slideshow_captions_unfiltered(captions) ==
    IF captions # <<>> THEN Just(captions) ELSE Nothing

\* lines 550-554: captions=captions if has_captions else None
slideshow_captions(captions) ==
    IF has_captions(captions) THEN Just(captions) ELSE Nothing

\* _create_video_with_captions(selected_paths, captions): the worker
\* created, its thread not started
VideoWorker(paths, captions) ==
    [paths |-> paths, captions |-> captions, called |-> FALSE,
     passed |-> Nothing]

-----------------------------------------------------------------------------
(* The in-memory log, src/hawk/logger.py. An entry is the timestamp and    *)
(* the message of f"[{timestamp}] {message}".                              *)

\* the most entries kept, line 59
MAX_LOG_MESSAGES == 100

\* a log that evicts the newest entry when it is full
log_evicting_newest(messages, timestamp, message) ==
    IF Len(messages) + 1 > MAX_LOG_MESSAGES
    THEN messages
    ELSE Append(messages, [timestamp |-> timestamp, message |-> message])

\* log(message, level), lines 47-60: append, then pop(0) when there are more
\* than 100
log(messages, timestamp, message) ==
    LET appended == Append(messages, [timestamp |-> timestamp, message |-> message])
    IN  IF Len(appended) > MAX_LOG_MESSAGES THEN Tail(appended) ELSE appended

\* the index a Python slice starts at: s[start:] on a list of n elements
SliceStart(n, start) ==
    IF start < 0
    THEN (IF n + start < 0 THEN 0 ELSE n + start)
    ELSE (IF start > n THEN n ELSE start)

\* get_recent_logs(count), lines 83-85: _log_messages[-count:]
get_recent_logs(messages, count) ==
    SubSeq(messages, SliceStart(Len(messages), 0 - count) + 1, Len(messages))

\* clear_logs(), lines 88-90
clear_logs(messages) == <<>>

-----------------------------------------------------------------------------
(* Spec: any sequence of calls on the cache, on any machine.               *)

InitCache ==
    /\ _pipeline = NoPipeline
    /\ _current_model = None
    /\ _model_loaded = FALSE
    /\ heap = {}
    /\ loads = 0
    /\ images_dir = {}
    /\ now = 0
    /\ prev = Summary("start", None, <<>>, TRUE)
    /\ last = Idle
    /\ ui = Mounted
    /\ image_list = EmptyImageList
    /\ caption_editor = NoEditor
    /\ slideshow = <<>>
    /\ _log_messages = <<>>

Init ==
    /\ InitCache
    /\ env \in [cuda : BOOLEAN, mps : BOOLEAN]
    /\ pending = NoRequest

Preload ==
    \E model \in ModelIds \cup {None}, hasCb \in BOOLEAN, cached \in BOOLEAN, fail \in LoadFailures :
        PreloadModel(model, hasCb, cached, fail) /\ TrackOp

\* _get_pipeline gives preload_model no callback, so what the cache probe
\* answers changes nothing it leaves behind
Ensure ==
    \E model \in ModelIds \cup {None}, fail \in LoadFailures :
        GetPipeline(model, FALSE, fail) /\ TrackOp

Unload == UnloadModel /\ TrackOp

\* the inference calls return or raise; SpecGenerate draws the other outcomes
Generate ==
    \E model \in ModelIds \cup {None}, n \in 1..MaxOutputs, fail \in LoadFailures :
        \E outcomes \in {o \in OutcomeSeqs(n) : \A i \in 1..n : o[i] \in {"ok", "error"}} :
            /\ GenerateImage(ShortPrompt, n, "9:16", NoSeed, model, TRUE, FALSE, fail, outcomes, ExactSizes("9:16", n), 0)
            /\ TrackOp
            /\ UNCHANGED pending

Next == Preload \/ Ensure \/ Unload \/ Generate \/ Return

Spec == Init /\ [][Next]_vars

-----------------------------------------------------------------------------
(* SpecPreload: sequences of preload_model and unload_model calls, each    *)
(* call's record keeping the model and the load work of the call before.   *)

PreloadTracked ==
    \E model \in ModelIds \cup {None}, hasCb \in BOOLEAN, cached \in BOOLEAN, fail \in LoadFailures :
        PreloadModel(model, hasCb, cached, fail) /\ TrackCall

UnloadTracked == UnloadModel /\ TrackCall

NextPreload == PreloadTracked \/ UnloadTracked \/ Return

SpecPreload == Init /\ [][NextPreload]_vars

-----------------------------------------------------------------------------
(* SpecSanitize: one generate_image call on a prompt drawn at the start.   *)
(* The prompts are runs of the letter "a" of lengths around                *)
(* MAX_PROMPT_CHARS, with commas, spaces and tabs written at the start,    *)
(* around index MIN_BREAK and around the cut.                              *)

PromptLengths ==
    {1, 3, MAX_PROMPT_CHARS - 1}
    \cup (MAX_PROMPT_CHARS..(MAX_PROMPT_CHARS + MaxExtra))

\* 0-based indices at which separators are written
BreakPositions ==
    {0, 1, MIN_BREAK - 1, MIN_BREAK, MIN_BREAK + 1, MIN_BREAK + 2,
     MAX_PROMPT_CHARS - 2, MAX_PROMPT_CHARS - 1, MAX_PROMPT_CHARS}

SeparatorChars == {",", " ", "\t"}

\* one or two separators in a row
Separators ==
    {<<c>> : c \in SeparatorChars}
    \cup {<<c, d>> : c \in SeparatorChars, d \in SeparatorChars}

\* at most one more separator elsewhere
SecondSeparators == {<<>>} \cup {<<c>> : c \in SeparatorChars}

SanitizePrompts ==
    {Fill(n) : n \in PromptLengths}
    \cup {[i \in 1..n |-> c] : n \in PromptLengths, c \in {",", " "}}
    \cup {Patch(Patch(Fill(n), p1, s1), p2, s2) :
            n \in PromptLengths, p1 \in BreakPositions, s1 \in Separators,
            p2 \in BreakPositions, s2 \in SecondSeparators}

InitSanitize ==
    /\ InitCache
    /\ env = [cuda |-> FALSE, mps |-> FALSE]
    /\ pending \in {[some |-> TRUE, prompt |-> p] : p \in SanitizePrompts}

\* generate_image(project, pending.prompt) with the default model; the call
\* succeeds, with or without step callbacks
SubmitPending ==
    /\ pending.some
    /\ \E outcomes \in {<<"ok">>, <<"no_callback">>} :
        GenerateImage(pending.prompt, 1, "9:16", NoSeed, None, TRUE, FALSE, "none", outcomes, ExactSizes("9:16", 1), 0)
    /\ TrackOp
    /\ pending' = NoRequest

NextSanitize == SubmitPending \/ Return

SpecSanitize == InitSanitize /\ [][NextSanitize]_vars

-----------------------------------------------------------------------------
(* SpecGenerate: one generate_image call for a request drawn at the start, *)
(* on a machine with or without CUDA; the environment answers with a load  *)
(* that may fail, with what each inference call meets and with the size of *)
(* each image the model produces.                                          *)

\* the aspect ratio labels drawn: the five of the table and three outside it
AspectLabels == {"9:16", "16:9", "1:1", "4:3", "3:4", "2:3", "9:16 ", ""}

Seeds == {NoSeed, 42}

Requests ==
    [some : {TRUE}, prompt : {ShortPrompt}, num_outputs : 1..MaxOutputs,
     aspect_ratio : AspectLabels, seed : Seeds]

\* the sizes the model may produce when asked for an aspect ratio
OutputSizes(aspect_ratio) == {aspect_to_dimensions(aspect_ratio), <<512, 512>>}

InitGenerate ==
    /\ InitCache
    /\ env \in [cuda : BOOLEAN, mps : {FALSE}]
    /\ pending \in Requests

\* generate_image(project, prompt, num_outputs, aspect_ratio, seed, model,
\* progress_callback=...) for the pending request
SubmitRequest ==
    /\ pending.some
    /\ \E model \in {None, FLUX_SCHNELL}, hasCb \in BOOLEAN, fail \in LoadFailures :
        \E outcomes \in OutcomeSeqs(pending.num_outputs), sizes \in [1..pending.num_outputs -> OutputSizes(pending.aspect_ratio)] :
            \E entropy \in (IF pending.seed = NoSeed THEN {0, 1} ELSE {0}) :
                GenerateImage(pending.prompt, pending.num_outputs, pending.aspect_ratio, pending.seed, model, hasCb, FALSE, fail, outcomes, sizes, entropy)
    /\ TrackOp
    /\ pending' = NoRequest

NextGenerate == SubmitRequest \/ Return

SpecGenerate == InitGenerate /\ [][NextGenerate]_vars

-----------------------------------------------------------------------------
(* SpecSeeded: generate_image calls with and without a seed, with          *)
(* preload_model and unload_model calls between them; one earlier          *)
(* generate_image call is remembered, with the images it produced, in the  *)
(* record of every later call. The model produces the size asked for.      *)

\* what is remembered of a generate_image call
RunSummary(r) ==
    [op |-> r.op, model |-> Resolve(r.model), ret |-> r.ret, seed |-> r.seed,
     prompt |-> r.arg_prompt, aspect_ratio |-> r.aspect_ratio,
     num_outputs |-> r.num_outputs, images |-> r.images]

\* the call just made is the one remembered from now on, or is not
RememberOrNot == prev' = RunSummary(last') \/ UNCHANGED prev

GenerateSeeded ==
    \E model \in ModelIds, n \in 1..MaxOutputs, seed \in Seeds, fail \in LoadFailures :
        \E outcomes \in {[i \in 1..n |-> "ok"], [i \in 1..n |-> "no_callback"]} :
            /\ GenerateImage(ShortPrompt, n, "9:16", seed, model, FALSE, FALSE, fail, outcomes, ExactSizes("9:16", n), 0)
            /\ RememberOrNot
            /\ UNCHANGED pending

PreloadBetween ==
    \E model \in ModelIds, fail \in LoadFailures :
        PreloadModel(model, FALSE, FALSE, fail) /\ UNCHANGED prev

UnloadBetween == UnloadModel /\ UNCHANGED prev

NextSeeded == GenerateSeeded \/ PreloadBetween \/ UnloadBetween \/ Return

SpecSeeded == Init /\ [][NextSeeded]_vars

-----------------------------------------------------------------------------
(* SpecImgcat: imgcat calls on one file, which other programs overwrite    *)
(* between the calls; the record of a call keeps the call before it.       *)

\* the longest file drawn
MaxBytes == 3

ByteValues == {0, 77, 255}

RECURSIVE ByteStrings(_)
ByteStrings(n) ==
    IF n = 0 THEN {<<>>}
    ELSE ByteStrings(n - 1)
         \cup {Append(b, v) : b \in {c \in ByteStrings(n - 1) : Len(c) = n - 1}, v \in ByteValues}

Widths == {0, 40, 100, 0 - 1}

ImagePath == "image.png"

InitImgcat ==
    /\ _pipeline = NoPipeline
    /\ _current_model = None
    /\ _model_loaded = FALSE
    /\ heap = {}
    /\ loads = 0
    /\ \E b \in ByteStrings(MaxBytes) :
        images_dir = {[path |-> ImagePath, bytes |-> b]}
    /\ now = 0
    /\ prev = Summary("start", None, <<>>, TRUE)
    /\ last = Idle
    /\ ui = Mounted
    /\ image_list = EmptyImageList
    /\ caption_editor = NoEditor
    /\ slideshow = <<>>
    /\ _log_messages = <<>>
    /\ env = [cuda |-> FALSE, mps |-> FALSE]
    /\ pending = NoRequest

\* what the next call's record keeps of an imgcat call
ImgcatSummary(r) == [op |-> r.op, width |-> r.width, data |-> r.data, ret |-> r.ret]

ImgcatCall ==
    \E width \in Widths :
        /\ Imgcat(ImagePath, width)
        /\ prev' = ImgcatSummary(last')

\* the file is overwritten
OverwriteFile ==
    /\ last.op = "idle"
    /\ \E b \in ByteStrings(MaxBytes) :
        /\ b # ReadBytes(images_dir, ImagePath)
        /\ images_dir' = {[path |-> ImagePath, bytes |-> b]}
    /\ UNCHANGED <<_pipeline, _current_model, _model_loaded, heap, loads, env,
                   now, pending, last, prev, ui,
                   image_list, caption_editor, slideshow, _log_messages>>

NextImgcat == ImgcatCall \/ OverwriteFile \/ Return

SpecImgcat == InitImgcat /\ [][NextImgcat]_vars

-----------------------------------------------------------------------------
(* SpecUI: prompt submissions and video requests made through the          *)
(* application, the worker threads and the UI thread taking their steps    *)
(* in any order.                                                           *)

InitUI ==
    /\ InitCache
    /\ env = [cuda |-> FALSE, mps |-> FALSE]
    /\ pending = NoRequest

Submit == \E value \in {ShortPrompt, << " " >>} : on_input_submitted(value)

Start == \E i \in 1..MaxWorkers : WorkerStarts(i)

Callback == \E i \in 1..MaxWorkers : RunCallback(i)

GenerationOver == \E i \in 1..MaxWorkers, ok \in BOOLEAN : GenerateEnds(i, ok)

ProgressEvent == \E i \in 1..MaxWorkers : progress_update(i)

FocusPrompt == action_focus_prompt

OpenEditor == action_create_video

CloseEditor == \E create \in BOOLEAN : handle_captions(create)

VideoOver == \E i \in 1..MaxWorkers, ok \in BOOLEAN : VideoEnds(i, ok)

NextUI ==
    \/ Submit
    \/ Start
    \/ Callback
    \/ GenerationOver
    \/ ProgressEvent
    \/ FocusPrompt
    \/ OpenEditor
    \/ CloseEditor
    \/ VideoOver

SpecUI == InitUI /\ [][NextUI]_vars

-----------------------------------------------------------------------------
(* Properties of the cache, checked under Spec.                            *)

\* the ids for which the test of lines 79 and 159 finds a loaded pipeline
ReadyIds(c) == {m \in ModelIds : AlreadyLoaded(c, m)}

\* the last call was one that may load a model
LoadingCall == last.op \in {"preload_model", "_get_pipeline", "generate_image"}

\* the last call ran a load that went through
LoadSucceeded == LoadingCall /\ last.work # <<>> /\ last.fail = "none"

\* C1: after every call, failed or not, at most one pipeline object is
\* resident and it is the one _pipeline names; at most one id is ready; and a
\* load that went through leaves exactly the new model's pipeline resident,
\* the one held before released.
C1_AtMostOneResident ==
    /\ Cardinality(heap) <= 1
    /\ heap = {_pipeline} \ {NoPipeline}
    /\ Cardinality(ReadyIds(Cache)) <= 1
    /\ LoadSucceeded =>
          /\ heap = {_pipeline}
          /\ _pipeline.model = Resolve(last.model)
          /\ last.pre.pipeline \notin heap

\* C1 witness: a load of another id went through while a model was resident
C1_Witness ==
    /\ last.op = "preload_model"
    /\ LoadSucceeded
    /\ is_model_loaded(last.pre)
    /\ last.pre.pipeline.model # Resolve(last.model)
    /\ Cardinality(heap) = 1

\* C2: every inference call of generate_image, and the pipeline that
\* _get_pipeline returns, is the pipeline loaded from the resolved model id of
\* the call.
C2_InferenceOnRequestedModel ==
    last.op \in {"generate_image", "_get_pipeline"} =>
        \A i \in 1..Len(last.calls) :
            last.calls[i].pipeline.model = Resolve(last.model)

\* C3: a preload_model that fails returns False, gives its callback an error
\* event last, and leaves the cache unloaded: is_model_loaded() is False, no
\* current model is recorded, and the model that was ready before is not
\* resident.
C3_FailedPreloadLeavesUnloaded ==
    (last.op = "preload_model" /\ last.fail # "none") =>
        /\ ~last.ret
        /\ last.hasCb => last.events[Len(last.events)] = ErrorMessage(last.fail)
        /\ ~is_model_loaded(Cache)
        /\ _current_model = None
        /\ last.pre.pipeline \notin heap

\* C5: a preload_model(id2) that succeeds while id1 # id2 is ready leaves
\* exactly one ready id, id2: the current model is id2, the resident pipeline
\* is the one loaded from id2, the pipeline held before is released, and
\* _get_pipeline(id1) has to load again.
C5_ReplaceLeavesOnlyNew ==
    (/\ last.op = "preload_model"
     /\ last.ret
     /\ ReadyIds(last.pre) # {}
     /\ Resolve(last.model) \notin ReadyIds(last.pre)) =>
        /\ ReadyIds(Cache) = {Resolve(last.model)}
        /\ _current_model = Resolve(last.model)
        /\ is_model_loaded(Cache)
        /\ _pipeline.model = Resolve(last.model)
        /\ heap = {_pipeline}
        /\ last.pre.pipeline \notin heap
        /\ \A id1 \in ReadyIds(last.pre) :
              get_pipeline(Cache, id1, FALSE, env, "none").preloads = 1

\* C5 witness: such a replacing preload has happened
C5_Witness ==
    /\ last.op = "preload_model"
    /\ last.ret
    /\ ReadyIds(last.pre) = {SDXL_TURBO}
    /\ last.model = FLUX_SCHNELL
    /\ _current_model = FLUX_SCHNELL

\* C6: after unload_model() nothing is loaded and no current model is
\* recorded; and a preload_model or _get_pipeline that follows an unload, for
\* any id, does not take the already-loaded path: it runs the load, all of it
\* when no step raises.
C6_UnloadThenReload ==
    /\ last.op = "unload_model" =>
          /\ ~is_model_loaded(Cache)
          /\ _current_model = None
          /\ _pipeline = NoPipeline
          /\ heap = {}
    /\ (last.op \in {"preload_model", "_get_pipeline"}
        /\ last.before.op = "unload_model") =>
          /\ last.work = LoadWork(last.fail)
          /\ last.work # <<>>
          /\ last.op = "preload_model" /\ last.hasCb =>
                AlreadyLoadedMsg \notin {last.events[i] : i \in 1..Len(last.events)}
          /\ last.fail = "none" =>
                /\ last.work = <<"probe", "device", "weights", "move">>
                /\ loads = last.pre.loads + 1
                /\ _pipeline.serial = loads

\* C6 witness: the id that was unloaded is preloaded again, and loaded anew
C6_Witness ==
    /\ last.op = "preload_model"
    /\ last.before.op = "unload_model"
    /\ last.ret
    /\ loads = 2
    /\ last.work = <<"probe", "device", "weights", "move">>

\* C7: unload_model() with nothing loaded changes no cache variable; so a
\* second unload_model() right after one changes nothing.
C7_UnloadNothingIsNoOp ==
    /\ (last.op = "unload_model" /\ last.pre.pipeline = NoPipeline) =>
          Cache = last.pre
    /\ (last.op = "unload_model" /\ last.before.op = "unload_model") =>
          Cache = last.pre

\* C7 witness: unload_model() twice in a row, after a model had been loaded
C7_Witness ==
    /\ last.op = "unload_model"
    /\ last.before.op = "unload_model"
    /\ last.pre.pipeline = NoPipeline
    /\ _model_loaded

\* C8: _get_pipeline, called directly or by generate_image, returns the
\* resident pipeline without calling preload_model when the requested id is
\* ready; otherwise it calls preload_model once, and when that fails it
\* raises: nothing is returned, and generate_image makes no inference call
\* and saves nothing.
C8_EnsureLoadsOnceOrRaises ==
    last.op \in {"_get_pipeline", "generate_image"} =>
        /\ AlreadyLoaded(last.pre, Resolve(last.model)) =>
              /\ last.preloads = 0
              /\ last.work = <<>>
              /\ Cache = last.pre
              /\ last.op = "_get_pipeline" =>
                    last.ret /\ last.calls[1].pipeline = last.pre.pipeline
        /\ ~AlreadyLoaded(last.pre, Resolve(last.model)) =>
              /\ last.preloads = 1
              /\ last.fail # "none" =>
                    ~last.ret /\ last.calls = <<>> /\ last.saved = <<>>
              /\ (last.fail = "none" /\ last.op = "_get_pipeline") =>
                    last.ret /\ last.calls[1].pipeline = _pipeline

\* C8 witness: a generate_image whose load failed after the weights were read
C8_Witness ==
    /\ last.op = "generate_image"
    /\ last.fail = "move"
    /\ ~last.ret
    /\ last.calls = <<>>

\* C18: a load that went through chose CUDA when CUDA is available, MPS
\* when CUDA is not and MPS is, and the CPU when neither is: one device for
\* every combination, named in the messages and the device of the pipeline.
C18_DevicePriority ==
    LoadSucceeded =>
        LET device == IF env.cuda THEN "cuda"
                      ELSE IF env.mps THEN "mps" ELSE "cpu"
        IN  /\ _pipeline.device = device
            /\ "device" \in {last.work[i] : i \in 1..Len(last.work)}
            /\ last.op = "preload_model" /\ last.hasCb =>
                  /\ \E i \in 1..Len(last.events) :
                        /\ last.events[i].text = "Using"
                        /\ last.events[i].device = device
                  /\ \A i \in 1..Len(last.events) :
                        last.events[i].device \in {"", device}

\* C18 witness: a load went through on a machine with both CUDA and MPS
C18_Witness ==
    /\ LoadSucceeded
    /\ last.op = "preload_model"
    /\ last.hasCb
    /\ env.cuda
    /\ env.mps
    /\ _pipeline.device = "cuda"

\* C19: a load that went through on MPS gave a flux-class model bfloat16 and
\* any other model float16; on the CPU it gave every model float32.
C19_PrecisionPolicy ==
    LoadSucceeded =>
        /\ _pipeline.device = "mps" =>
              _pipeline.dtype =
                  IF Resolve(last.model) = FLUX_SCHNELL THEN "bfloat16"
                  ELSE "float16"
        /\ _pipeline.device = "cpu" => _pipeline.dtype = "float32"

\* C19 witness: the model with FLUX in its id was loaded on MPS
C19_Witness ==
    /\ LoadSucceeded
    /\ Resolve(last.model) = FLUX_SCHNELL
    /\ _pipeline.device = "mps"
    /\ _pipeline.dtype = "bfloat16"

-----------------------------------------------------------------------------
(* Properties of preload_model, checked under SpecPreload.                 *)

\* C4 as stated: a preload_model that finds its id ready does no load work,
\* emits only the "already loaded" event, returns True and leaves the cache
\* as it was; and two consecutive preloads of the same id do load work at
\* most once.
C4_TwoPreloadsLoadOnce ==
    last.op = "preload_model" =>
        /\ AlreadyLoaded(last.pre, Resolve(last.model)) =>
              /\ last.ret
              /\ last.work = <<>>
              /\ Cache = last.pre
              /\ last.events = IF last.hasCb THEN <<AlreadyLoadedMsg>> ELSE <<>>
        /\ (last.before.op = "preload_model"
            /\ Resolve(last.before.model) = Resolve(last.model)) =>
              ~(last.before.worked /\ last.work # <<>>)

\* C4, amended: a preload_model that finds its id ready does no load work
\* (no probe, no device selection, no weights load), gives its callback the
\* one "already loaded" event, returns True and leaves the cache as it was;
\* and of two consecutive preloads of the same id of which the first returned
\* True, the second does no load work.
C4_PreloadIdempotent ==
    last.op = "preload_model" =>
        /\ AlreadyLoaded(last.pre, Resolve(last.model)) =>
              /\ last.ret
              /\ last.work = <<>>
              /\ Cache = last.pre
              /\ last.events = IF last.hasCb THEN <<AlreadyLoadedMsg>> ELSE <<>>
        /\ (last.before.op = "preload_model"
            /\ Resolve(last.before.model) = Resolve(last.model)
            /\ last.before.ret) =>
              /\ last.work = <<>>
              /\ loads = last.pre.loads
              /\ last.ret

\* C4 witness: a preload that loaded and returned True, then a preload of the
\* same id with a callback
C4_Witness ==
    /\ last.op = "preload_model"
    /\ last.before.op = "preload_model"
    /\ Resolve(last.before.model) = Resolve(last.model)
    /\ last.before.worked
    /\ last.before.ret
    /\ last.hasCb
    /\ last.events = <<AlreadyLoadedMsg>>

-----------------------------------------------------------------------------
(* Properties of the prompt truncation, checked under SpecSanitize.        *)

IsPrefix(p, s) == Len(p) <= Len(s) /\ SubSeq(s, 1, Len(p)) = p

\* the number of whitespace characters s starts with
LeadingWhitespace(s) ==
    CHOOSE k \in 0..Len(s) :
        /\ \A i \in 1..k : s[i] \in Whitespace
        /\ k = Len(s) \/ s[k + 1] \notin Whitespace

\* s without the whitespace it starts with
WithoutLeadingWhitespace(s) == SubSeq(s, LeadingWhitespace(s) + 1, Len(s))

\* the prompts the inference calls of the last generate_image received
PassedPrompts == {last.calls[i].prompt : i \in 1..Len(last.calls)}

\* C9 as stated: the prompt passed to the model has at most 250 characters;
\* a prompt of at most 250 characters is passed unchanged; a longer one
\* yields a prefix of the original.
C9_TruncatedIsPrefix ==
    last.op = "generate_image" =>
        \A p \in PassedPrompts :
            /\ Len(p) <= MAX_PROMPT_CHARS
            /\ Len(last.arg_prompt) <= MAX_PROMPT_CHARS => p = last.arg_prompt
            /\ Len(last.arg_prompt) > MAX_PROMPT_CHARS =>
                  IsPrefix(p, last.arg_prompt)

\* C9, amended: the prompt passed to the model has at most 250 characters; a
\* prompt of at most 250 characters is passed unchanged; a longer one yields
\* a prefix of the original without its leading whitespace, within the first
\* 250 characters of the original.
C9_PromptBounded ==
    last.op = "generate_image" =>
        \A p \in PassedPrompts :
            /\ Len(p) <= MAX_PROMPT_CHARS
            /\ Len(last.arg_prompt) <= MAX_PROMPT_CHARS => p = last.arg_prompt
            /\ Len(last.arg_prompt) > MAX_PROMPT_CHARS =>
                  /\ IsPrefix(p, WithoutLeadingWhitespace(last.arg_prompt))
                  /\ p # <<>> =>
                        LeadingWhitespace(last.arg_prompt) + Len(p) <= MAX_PROMPT_CHARS

\* C9 witness: a prompt longer than 250 that starts with a space went to the
\* model, cut
C9_Witness ==
    /\ last.op = "generate_image"
    /\ Len(last.arg_prompt) > MAX_PROMPT_CHARS
    /\ last.arg_prompt[1] = " "
    /\ Len(last.calls) = 2
    /\ \A p \in PassedPrompts : Len(p) = MAX_PROMPT_CHARS - 1

\* the 0-based index of the last comma or space among the first 250
\* characters of a, -1 when there is none
BreakIndex(a) ==
    LET S == {i \in 0..(MAX_PROMPT_CHARS - 1) : a[i + 1] \in {",", " "}}
    IN  IF S = {} THEN -1 ELSE CHOOSE i \in S : \A j \in S : j <= i

\* p is a[:cut] trimmed: leading whitespace removed, and at the end only
\* characters of dropped removed, whitespace last
TrimmedCut(a, p, cut, dropped) ==
    IF p = <<>>
    THEN \A i \in 1..cut : a[i] \in dropped \cup Whitespace
    ELSE LET k == LeadingWhitespace(a)
         IN  /\ k + Len(p) <= cut
             /\ p = SubSeq(a, k + 1, k + Len(p))
             /\ \A i \in (k + Len(p) + 1)..cut : a[i] \in dropped
             /\ p[Len(p)] \notin Whitespace

\* p, cut from a, ends inside a word: its last character and the character
\* of a that followed it are both neither separator nor whitespace
EndsMidWord(a, p) ==
    /\ p # <<>>
    /\ p[Len(p)] \notin SeparatorChars
    /\ a[LeadingWhitespace(a) + Len(p) + 1] \notin SeparatorChars

\* what the claim says of a prompt a longer than 250 and the prompt p passed
\* on, the boundary being usable from index least on
CutRule(a, p, least) ==
    IF BreakIndex(a) >= least
    THEN TrimmedCut(a, p, BreakIndex(a), SeparatorChars) /\ ~EndsMidWord(a, p)
    ELSE TrimmedCut(a, p, MAX_PROMPT_CHARS, Whitespace)

\* C10 as stated: a prompt longer than 250 is cut at the last comma or space
\* of its first 250 characters whenever that boundary is at index 150 or
\* later, and at 250 only when there is none; so the result ends mid-word
\* only when no comma or space is at index 150 or later.
C10_CutFrom150 ==
    (last.op = "generate_image" /\ Len(last.arg_prompt) > MAX_PROMPT_CHARS) =>
        \A p \in PassedPrompts : CutRule(last.arg_prompt, p, MIN_BREAK)

-----------------------------------------------------------------------------
(* Properties of generate_image, checked under SpecGenerate.               *)

\* the last call was a generate_image that got its pipeline
Generating == last.op = "generate_image" /\ last.fail = "none"

\* the table of the claim: label, width, height
KnownDimensions ==
    { <<"9:16", 768, 1344>>, <<"16:9", 1344, 768>>, <<"1:1", 1024, 1024>>,
      <<"4:3", 1152, 896>>, <<"3:4", 896, 1152>> }

\* C11: _aspect_to_dimensions returns a pair for every label and never
\* raises: the inference calls of a generate_image that got its pipeline are
\* made, with the width and height of the table entry of a known label, and
\* with 768 and 1344 for every label outside the table.
C11_DimensionsTotal ==
    Generating =>
        /\ last.calls # <<>>
        /\ \A i \in 1..Len(last.calls) :
            /\ \A k \in KnownDimensions :
                  last.aspect_ratio = k[1] =>
                      /\ last.calls[i].width = k[2]
                      /\ last.calls[i].height = k[3]
            /\ (\A k \in KnownDimensions : last.aspect_ratio # k[1]) =>
                  /\ last.calls[i].width = 768
                  /\ last.calls[i].height = 1344

\* C11 witness: a call with a label outside the table
C11_Witness ==
    /\ Generating
    /\ last.aspect_ratio = "2:3"
    /\ last.calls # <<>>
    /\ last.calls[1].width = 768

\* the paths of the files in a directory
PathsIn(files) == {f.path : f \in files}

\* C12: a generate_image that succeeds returns exactly num_outputs paths, in
\* generation order, pairwise distinct, with index suffixes 1..num_outputs,
\* each a file of the images directory holding the image of its iteration.
C12_ReturnsAllPaths ==
    (last.op = "generate_image" /\ last.ret /\ last.num_outputs >= 1) =>
        /\ Len(last.saved) = last.num_outputs
        /\ \A i \in 1..Len(last.saved) :
            /\ last.saved[i].index = i
            /\ [path |-> last.saved[i], image |-> last.images[i]] \in images_dir
            /\ last.images[i].noise.draw = i
        /\ \A i, j \in 1..Len(last.saved) :
              i # j => last.saved[i] # last.saved[j]

\* C12 witness: a call for two images or more returned
C12_Witness ==
    /\ last.op = "generate_image"
    /\ last.ret
    /\ last.num_outputs >= 2
    /\ Cardinality(images_dir) >= 2

\* iteration i of the last generate_image was entered
Attempted(i) ==
    /\ Generating
    /\ i \in 1..last.num_outputs
    /\ \A j \in 1..(i - 1) : last.outcomes[j] \in {"ok", "no_callback"}

\* the number of inference calls iteration i made
CallsOf(i) == IF last.outcomes[i] \in {"ok", "error"} THEN 1 ELSE 2

RECURSIVE CallsUpTo(_)
CallsUpTo(i) == IF i = 0 THEN 0 ELSE CallsUpTo(i - 1) + CallsOf(i)

\* C14: when generate_image fails at image k >= 2, it raises and returns
\* nothing, the k-1 files of the earlier iterations are on disk with the
\* images written, no other file was written, and no inference call was made
\* after the failing one.
C14_PartialFilesRemain ==
    (last.op = "generate_image" /\ ~last.ret /\ last.written # <<>>) =>
        LET k == Len(last.written) + 1
        IN  /\ last.saved = <<>>
            /\ last.outcomes[k] \in {"error", "retry_error"}
            /\ \A i \in 1..(k - 1) :
                  [path |-> last.written[i], image |-> last.images[i]] \in images_dir
            /\ PathsIn(images_dir) = PathsIn(last.pre_files) \cup Paths(last.written)
            /\ Cardinality(Paths(last.written)) = k - 1
            /\ Len(last.calls) = CallsUpTo(k)

\* C14 witness: a call for two images or more failed after the first
C14_Witness ==
    /\ last.op = "generate_image"
    /\ ~last.ret
    /\ last.written # <<>>
    /\ Len(last.written) < last.num_outputs

\* the coarse progress events of image i
CoarseEvents(i) ==
    {n \in 1..Len(last.progress) :
        /\ last.progress[n].image = i
        /\ last.progress[n].text = "Generating... (no step progress for this model)"}

\* C15: in every iteration whose call with the step callback meets the
\* capability failure, generate_image gives its progress callback one coarse
\* event for that image and repeats the call without the step callback,
\* otherwise unchanged; the image is produced when the repeated call
\* returns; and the call raises only if a call without the step callback, or
\* a call that met another failure, raised.
C15_FallbackWithoutCallback ==
    Generating =>
        /\ \A i \in 1..last.num_outputs :
            (Attempted(i) /\ last.outcomes[i] \in {"no_callback", "retry_error"}) =>
                /\ Len(last.calls) >= CallsUpTo(i)
                /\ last.calls[CallsUpTo(i) - 1].callback
                /\ last.calls[CallsUpTo(i)] =
                      [last.calls[CallsUpTo(i) - 1] EXCEPT !.callback = FALSE]
                /\ Cardinality(CoarseEvents(i)) = IF last.hasCb THEN 1 ELSE 0
                /\ last.outcomes[i] = "no_callback" =>
                      /\ Len(last.written) >= i
                      /\ [path |-> last.written[i], image |-> last.images[i]] \in images_dir
        /\ \A i \in 1..last.num_outputs :
            (Attempted(i) /\ last.outcomes[i] \in {"ok", "error"}) =>
                /\ CoarseEvents(i) = {}
                /\ Len(last.calls) >= CallsUpTo(i)
                /\ last.calls[CallsUpTo(i)].callback
        /\ last.ret <=>
              \A i \in 1..last.num_outputs : last.outcomes[i] \in {"ok", "no_callback"}

\* C15 witness: every image of a call for two or more met the capability
\* failure, and the call returned
C15_Witness ==
    /\ Generating
    /\ last.ret
    /\ last.hasCb
    /\ last.num_outputs >= 2
    /\ \A i \in 1..last.num_outputs : last.outcomes[i] = "no_callback"

\* C17: with aspect ratio "9:16" every image saved is 768x1344, resized
\* exactly when the model produced another size; with any other aspect ratio
\* every image is saved in the size the model produced, not resized.
C17_ResizeOnlyPortrait ==
    last.op = "generate_image" =>
        \A i \in 1..Len(last.written) :
            \E f \in images_dir :
                /\ f.path = last.written[i]
                /\ IF last.aspect_ratio = "9:16"
                   THEN /\ f.image.width = 768
                        /\ f.image.height = 1344
                        /\ f.image.resized <=> last.sizes[i] # <<768, 1344>>
                   ELSE /\ <<f.image.width, f.image.height>> = last.sizes[i]
                        /\ ~f.image.resized

\* C17 witness: a 9:16 call in which the model produced first the size asked
\* for, then another
C17_Witness ==
    /\ last.op = "generate_image"
    /\ last.aspect_ratio = "9:16"
    /\ Len(last.written) = 2
    /\ last.sizes[1] = <<768, 1344>>
    /\ last.sizes[2] = <<512, 512>>

-----------------------------------------------------------------------------
(* Properties of seeded generation, checked under SpecSeeded.              *)

\* the last call is a seeded generate_image that returned, and the call
\* remembered is one with the same seed, prompt, aspect ratio, number of
\* outputs and model that returned, on the same machine
SameSeededRun ==
    /\ last.op = "generate_image"
    /\ last.ret
    /\ last.seed # NoSeed
    /\ last.before.op = "generate_image"
    /\ last.before.ret
    /\ last.before.seed = last.seed
    /\ last.before.prompt = last.arg_prompt
    /\ last.before.aspect_ratio = last.aspect_ratio
    /\ last.before.num_outputs = last.num_outputs
    /\ last.before.model = Resolve(last.model)

\* C16: two generate_image runs with the same seed, prompt, aspect ratio,
\* number of outputs and model, on the same machine (the same device and
\* precision selected), produce the same sequence of images, whatever calls
\* were made between them.
C16_SeededDeterministic ==
    SameSeededRun => last.images = last.before.images

-----------------------------------------------------------------------------
(* Properties of imgcat, checked under SpecImgcat.                         *)

\* the value of a base64 character, 0 for the padding
B64Value(ch) ==
    IF ch = "=" THEN 0 ELSE (CHOOSE i \in 1..64 : B64Chars[i] = ch) - 1

\* the k-th byte the base64 text p stands for
DecodedByte(p, k) ==
    LET at == 4 * ((k - 1) \div 3)
        v1 == B64Value(p[at + 1])
        v2 == B64Value(p[at + 2])
        v3 == B64Value(p[at + 3])
        v4 == B64Value(p[at + 4])
    IN  CASE (k - 1) % 3 = 0 -> v1 * 4 + (v2 \div 16)
          [] (k - 1) % 3 = 1 -> (v2 % 16) * 16 + (v3 \div 4)
          [] OTHER -> (v3 % 4) * 64 + v4

\* p is the base64 encoding of data: four characters for every three bytes
\* begun, padded with "=" at the end only, the bits left over zero
IsBase64Of(p, data) ==
    LET used == ((8 * Len(data)) + 5) \div 6
    IN  /\ Len(p) = 4 * ((Len(data) + 2) \div 3)
        /\ \A i \in 1..Len(p) :
              IF i <= used THEN \E j \in 1..64 : B64Chars[j] = p[i]
              ELSE p[i] = "="
        /\ \A k \in 1..Len(data) : DecodedByte(p, k) = data[k]
        /\ Len(data) % 3 = 1 => B64Value(p[used]) % 16 = 0
        /\ Len(data) % 3 = 2 => B64Value(p[used]) % 4 = 0

\* the number a decimal text stands for
RECURSIVE DecimalValue(_)
DecimalValue(t) ==
    IF t = <<>> THEN 0
    ELSE 10 * DecimalValue(SubSeq(t, 1, Len(t) - 1))
         + (CHOOSE d \in 0..9 : DigitChars[d + 1] = t[Len(t)])

\* t is the decimal text of n: an optional minus sign, then digits without
\* leading zeros
IsDecimalOf(t, n) ==
    LET digits == IF n < 0 THEN Tail(t) ELSE t
    IN  /\ t # <<>>
        /\ n < 0 => t[1] = "-"
        /\ digits # <<>>
        /\ \A i \in 1..Len(digits) : \E d \in 1..10 : DigitChars[d] = digits[i]
        /\ Len(digits) > 1 => digits[1] # "0"
        /\ DecimalValue(digits) = (IF n < 0 THEN 0 - n ELSE n)

\* the position of the first ":" of t
FirstColon(t) ==
    CHOOSE i \in 1..Len(t) : t[i] = ":" /\ \A j \in 1..(i - 1) : t[j] # ":"

\* C20: imgcat returns ESC, "]1337;File=inline=1;width=", the decimal
\* width, ":", the base64 text of the bytes of the file and BEL, and nothing
\* else; it changes no state, and a call that follows a call with the same
\* width on the same bytes returns the same string, while a call on a file
\* overwritten since returns the text of the new bytes.
C20_ImgcatSequence ==
    last.op = "imgcat" =>
        LET out == last.ret
            n == Len(InlinePrefix)
            colon == FirstColon(out)
        IN  /\ Len(out) >= n + 4
            /\ out[1] = "ESC"
            /\ SubSeq(out, 2, n + 1) =
                  << "]", "1", "3", "3", "7", ";", "F", "i", "l", "e", "=", "i", "n", "l", "i", "n", "e", "=", "1", ";", "w", "i", "d", "t", "h", "=" >>
            /\ colon > n + 2
            /\ IsDecimalOf(SubSeq(out, n + 2, colon - 1), last.width)
            /\ IsBase64Of(SubSeq(out, colon + 1, Len(out) - 1), last.data)
            /\ out[Len(out)] = "BEL"
            /\ last.data = ReadBytes(images_dir, ImagePath)
            /\ Cache = last.pre
            /\ (last.before.op = "imgcat"
                /\ last.before.width = last.width
                /\ last.before.data = last.data) => out = last.before.ret
            /\ (last.before.op = "imgcat" /\ last.before.data # last.data) =>
                  out # last.before.ret

\* C20 witness: two calls with width 40, the file of two bytes overwritten
\* between them
C20_Witness ==
    /\ last.op = "imgcat"
    /\ last.width = 40
    /\ last.data = << 77, 255 >>
    /\ last.before.op = "imgcat"
    /\ last.before.width = 40
    /\ last.before.data # last.data
    /\ last.ret = << "ESC" >> \o InlinePrefix
                  \o << "4", "0", ":", "T", "f", "8", "=", "BEL" >>

-----------------------------------------------------------------------------
(* Properties of the application, checked under SpecUI.                    *)

\* the workers that are inside generate_image
InGenerate == {i \in 1..Len(ui.workers) : ui.workers[i].pc = "generate"}

\* C13: at most one generation is in flight at any time: whatever prompts
\* are submitted and videos requested, no two workers are inside
\* generate_image at once.
C13_OneGenerationInFlight == Cardinality(InGenerate) <= 1


-----------------------------------------------------------------------------
(* The end of a truncated prompt, checked under SpecSanitize.              *)

\* C23: for every prompt longer than 250 characters the sanitised prompt
\* passed to the model does not end with a comma or a whitespace character.
C23_NoTrailingSeparator ==
    (last.op = "generate_image" /\ Len(last.arg_prompt) > MAX_PROMPT_CHARS) =>
        \A p \in PassedPrompts :
            p # <<>> => p[Len(p)] \notin {","} \cup Whitespace

-----------------------------------------------------------------------------
(* generate_image and the cache, checked under Spec.                       *)

\* the three module globals of a cache
CacheState(c) == <<c.pipeline, c.current_model, c.model_loaded>>

\* C27: a generate_image call whose model is already Ready, successful or
\* failing, leaves _pipeline, _current_model and _model_loaded as they were
\* and calls no preload_model; a generate_image call changes the three only
\* through a preload_model it calls.
C27_GenerateOnlyReads ==
    last.op = "generate_image" =>
        /\ AlreadyLoaded(last.pre, Resolve(last.model)) =>
              /\ CacheState(Cache) = CacheState(last.pre)
              /\ last.preloads = 0
        /\ CacheState(Cache) # CacheState(last.pre) => last.preloads = 1

\* C27 witness: a generate_image on the Ready model whose second inference
\* call raised, after the first image was saved, the cache as before
C27_Witness ==
    /\ last.op = "generate_image"
    /\ AlreadyLoaded(last.pre, Resolve(last.model))
    /\ is_model_loaded(last.pre)
    /\ ~last.ret
    /\ Len(last.calls) = 2
    /\ Len(last.written) = 1
    /\ CacheState(Cache) = CacheState(last.pre)

\* C28: whenever is_model_loaded() is True a current model id is recorded and
\* the resident pipeline is the one loaded from that id; whenever no current
\* model id is recorded is_model_loaded() is False.
C28_CacheConsistent ==
    /\ is_model_loaded(Cache) =>
          /\ _current_model # None
          /\ _pipeline.model = _current_model
    /\ _current_model = None => ~is_model_loaded(Cache)


-----------------------------------------------------------------------------
(* The generator and the order of events of generate_image, checked under  *)
(* SpecGenerate.                                                           *)

\* the places of the timeline of the last call that hold an event of a kind
EventsOf(kind) ==
    {k \in 1..Len(last.timeline) : last.timeline[k].kind = kind}

\* C24: with a seed, generate_image constructs exactly one generator, before
\* the first image, seeded with the seed and bound to the device of the
\* pipeline, and every inference call, the call without the step callback
\* included, gets that object; without a seed it constructs none and every
\* call gets None.
C24_OneGenerator ==
    Generating =>
        IF last.seed # NoSeed
        THEN /\ Len(last.generators) = 1
             /\ last.generators[1].seed = last.seed
             /\ EventsOf("generator") = {1}
             /\ last.timeline[1].item = last.generators[1]
             /\ \A i \in 1..Len(last.calls) :
                   /\ last.calls[i].generator = last.generators[1]
                   /\ last.calls[i].generator.device = last.calls[i].pipeline.device
        ELSE /\ last.generators = <<>>
             /\ EventsOf("generator") = {}
             /\ \A i \in 1..Len(last.calls) :
                   last.calls[i].generator = NoGenerator

\* C24 witness: a seeded call for two images, the first produced by the call
\* without the step callback: three inference calls
C24_Witness ==
    /\ Generating
    /\ last.seed = 42
    /\ last.ret
    /\ last.outcomes = <<"no_callback", "ok">>
    /\ Len(last.calls) = 3
    /\ ~last.calls[2].callback
    /\ last.images[2].noise.draw = 2

\* the place in the timeline of the pre-step event of image i
PreStepOf(i) ==
    {k \in EventsOf("progress") :
        last.timeline[k].item = Progress(0, "Generating image", i, last.num_outputs)}

\* C26: with a progress callback, each image i that is attempted has one
\* pre-step event, with step 0 and naming image i of N; it comes before every
\* inference call and every other event of image i and after every event,
\* call and file write of the images before; the events given to the
\* callback are the progress events of the timeline, in order. Without a
\* progress callback no event is emitted, and the inference calls and the
\* file writes are those the iterations make with one.
C26_ProgressOrdered ==
    Generating =>
        /\ \A i \in 1..last.num_outputs :
              (Attempted(i) /\ last.hasCb) =>
                  /\ Cardinality(PreStepOf(i)) = 1
                  /\ \A k \in PreStepOf(i), j \in 1..Len(last.timeline) :
                        /\ (last.timeline[j].image = i /\ j # k) => k < j
                        /\ last.timeline[j].image < i => j < k
        /\ last.hasCb =>
              /\ Cardinality(EventsOf("progress")) = Len(last.progress)
              /\ \A n \in 1..Len(last.progress) :
                    \E k \in EventsOf("progress") :
                        /\ last.timeline[k].item = last.progress[n]
                        /\ Cardinality({j \in EventsOf("progress") : j <= k}) = n
        /\ ~last.hasCb =>
              /\ last.progress = <<>>
              /\ EventsOf("progress") = {}
        /\ Cardinality(EventsOf("call")) = Len(last.calls)
        /\ Cardinality(EventsOf("write")) = Len(last.written)
        /\ \A i \in 1..last.num_outputs :
              Attempted(i) =>
                  /\ Len(last.calls) >= CallsUpTo(i)
                  /\ Cardinality({k \in EventsOf("call") : last.timeline[k].image = i}) = CallsOf(i)
                  /\ Cardinality({k \in EventsOf("write") : last.timeline[k].image = i})
                        = IF last.outcomes[i] \in {"ok", "no_callback"} THEN 1 ELSE 0

\* C26 witness: a call with a progress callback for two images, the first
\* produced after the coarse event, the second with its step events
C26_Witness ==
    /\ Generating
    /\ last.hasCb
    /\ last.ret
    /\ last.outcomes = <<"no_callback", "ok">>
    /\ Len(last.progress) = 3 + SD_INFERENCE_STEPS
    /\ Len(last.timeline) >= 8

\* C26 witness without a progress callback: two images, no event
C26_WitnessNoSink ==
    /\ Generating
    /\ ~last.hasCb
    /\ last.ret
    /\ Len(last.written) = 2
    /\ Len(last.timeline) >= 4


-----------------------------------------------------------------------------
(* SpecFiles: generate_image calls one after the other into the same       *)
(* images directory, the clock advancing between them or not: the          *)
(* timestamp of line 278 has a resolution of one second.                   *)

MaxTicks == 1

\* two prompts with the same first 30 characters once sanitised, and one
\* with others
NamePrompts ==
    {ShortPrompt, <<"a", " ", "c", "a", "t", "!">>, <<"a", " ", "d", "o", "g">>}

InitFiles ==
    /\ InitCache
    /\ env = [cuda |-> FALSE, mps |-> FALSE]
    /\ pending = NoRequest

GenerateNamed ==
    \E prompt \in NamePrompts, n \in 1..MaxOutputs :
        /\ GenerateImage(prompt, n, "9:16", NoSeed, None, FALSE, FALSE, "none", [i \in 1..n |-> "ok"], ExactSizes("9:16", n), 0)
        /\ TrackOp
        /\ UNCHANGED pending

\* a second passes
SecondPasses == now < MaxTicks /\ Tick

NextFiles == GenerateNamed \/ SecondPasses \/ Return

SpecFiles == InitFiles /\ [][NextFiles]_vars

\* C25: every file a generate_image call writes gets a path distinct from
\* the paths of the files written before into the images directory, by the
\* same call or by an earlier one, and every file that was there before the
\* call is there after it, unchanged.
C25_FilenamesCollisionFree ==
    last.op = "generate_image" =>
        /\ Paths(last.written) \cap PathsIn(last.pre_files) = {}
        /\ Cardinality(Paths(last.written)) = Len(last.written)
        /\ last.pre_files \subseteq images_dir


-----------------------------------------------------------------------------
(* The workers and the UI state, checked under SpecUI.                     *)

\* what the user sees of the application
UiState(u) == <<u.disabled, u.status, u.focus, u.list, u.editor>>

\* the places at which the thread of a worker runs
ThreadRuns == {"queued", "generate", "create"}

\* this step is one the thread of a worker takes: the worker leaves a place
\* at which its thread runs, and not by being cancelled before it started
WorkerStep ==
    \E i \in 1..Len(ui.workers) :
        /\ ui.workers[i].pc \in ThreadRuns
        /\ ui'.workers[i].pc \notin {ui.workers[i].pc, "cancelled"}

\* C21: no step of a worker thread changes the UI state (input enabled or
\* disabled, status bar, focus, image list, modal screen): every change a
\* worker causes is made by the UI thread, running a callback the worker
\* passed to call_from_thread.
C21_WorkerNeverMutatesUi ==
    [][WorkerStep => UiState(ui') = UiState(ui)]_vars

\* C21 witness: a generation worker went through the progress path and the
\* success path: its images are listed, the final status is shown, the image
\* list has the focus and the input is enabled again
C21_Witness ==
    \E i \in 1..Len(ui.workers) :
        /\ ui.workers[i].kind = "generate"
        /\ ui.workers[i].pc = "done"
        /\ ui.workers[i].delivered = "result"
        /\ i \in ui.list
        /\ ui.status = "generated"
        /\ ui.focus = "images"
        /\ ~ui.disabled

\* C22: a worker whose thread has started is never dropped, whatever is
\* submitted or requested after it; a step that creates a worker leaves every
\* started worker where it is; a worker inside generate_image leaves it only
\* for a progress callback, for the report of its result or for the report
\* of its error; and a generation worker that has returned has given the
\* status bar its result or its error.
C22_RunningNeverInterrupted ==
    [][\A i \in 1..Len(ui.workers) :
          /\ ui.workers[i].pc \notin {"queued", "cancelled"} =>
                ui'.workers[i].pc # "cancelled"
          /\ (Len(ui'.workers) > Len(ui.workers) /\ ui.workers[i].pc # "queued") =>
                ui'.workers[i].pc = ui.workers[i].pc
          /\ (ui.workers[i].pc = "generate" /\ ui'.workers[i].pc # "generate") =>
                ui'.workers[i].pc \in {"progress", "report", "error"}
          /\ (ui'.workers[i].kind = "generate" /\ ui'.workers[i].pc = "done") =>
                ui'.workers[i].delivered =
                    IF ui'.workers[i].saved THEN "result" ELSE "error"]_vars

\* C22 witness: of three requests the first was running when the second was
\* submitted and has delivered its result although cancelled; the second was
\* cancelled before it started
C22_Witness ==
    /\ Len(ui.workers) = 3
    /\ ui.workers[1].cancelled
    /\ ui.workers[1].pc = "done"
    /\ ui.workers[1].delivered = "result"
    /\ ui.workers[2].pc = "cancelled"
    /\ ui.workers[3].kind = "generate"

\* no generation worker has started and not yet returned
NoGenerationInFlight ==
    \A i \in 1..Len(ui.workers) :
        ui.workers[i].kind = "generate" =>
            ui.workers[i].pc \in {"queued", "cancelled", "done"}

\* C29: once no generation is in flight and every callback passed to
\* call_from_thread has run, the prompt input is enabled, whether the
\* generations returned or raised.
C29_InputReenabled == NoGenerationInFlight => ~ui.disabled

\* C29 witness: two generations are over, one that raised and one that
\* returned, and the input is enabled
C29_Witness ==
    /\ NoGenerationInFlight
    /\ ~ui.disabled
    /\ \E i, j \in 1..Len(ui.workers) :
          /\ ui.workers[i].pc = "done" /\ ui.workers[i].delivered = "error"
          /\ ui.workers[j].pc = "done" /\ ui.workers[j].delivered = "result"

\* C30: a worker being inside generate_image implies that the prompt input
\* is disabled.
C30_DisabledWhileGenerating == InGenerate # {} => ui.disabled


-----------------------------------------------------------------------------
(* SpecList: the image list of the application. Files appear in the images *)
(* directory, the list is refreshed, the keys of the list are pressed and  *)
(* the selected images are deleted, in any order.                          *)

\* the most files in the images directory
MaxFiles == 3

ListUnchanged ==
    UNCHANGED <<_pipeline, _current_model, _model_loaded, heap, loads, env,
                now, pending, prev, ui, caption_editor, slideshow,
                _log_messages>>

\* a generation writes a file into the images directory
FileAppears ==
    /\ last.op = "idle"
    /\ \E path \in 1..MaxFiles :
        /\ path \notin {f.path : f \in images_dir}
        /\ images_dir' = images_dir \cup {[path |-> path]}
    /\ UNCHANGED <<image_list, last>>
    /\ ListUnchanged

\* refresh_images, lines 352-356: the list is set to what get_project_images
\* returns
refresh_images ==
    /\ last.op = "idle"
    /\ \E q \in Listings(images_dir) :
        image_list' = set_images(image_list, q)
    /\ last' = [CallRecord("refresh_images", None, <<>>, TRUE) EXCEPT
                    !.data = image_list]
    /\ UNCHANGED images_dir
    /\ ListUnchanged

ListKeys == {"up", "down", "space", "a", "escape"}

\* the bindings of lines 85-93, and escape with the focus on the list
\* (action_clear_or_focus_images, lines 397-403)
AfterKey(l, key) ==
    CASE key = "up" -> action_move_up(l)
      [] key = "down" -> action_move_down(l)
      [] key = "space" -> action_toggle_select(l)
      [] key = "a" -> action_select_all(l)
      [] OTHER -> clear_selection(l)

ListKey ==
    /\ last.op = "idle"
    /\ ~caption_editor.open
    /\ \E key \in ListKeys : image_list' = AfterKey(image_list, key)
    /\ UNCHANGED <<images_dir, last>>
    /\ ListUnchanged

\* action_delete_selected, lines 499-512: delete_image is called on the
\* selected images of the list and removes the files in deleted, then the
\* list is refreshed; the record keeps the list before and the files removed
action_delete_selected ==
    /\ last.op = "idle"
    /\ ~caption_editor.open
    /\ IF image_list.selected = {}
       THEN /\ last' = [CallRecord("action_delete_selected", None, <<>>, 0) EXCEPT
                            !.data = image_list, !.written = {}]
            /\ UNCHANGED <<images_dir, image_list>>
       ELSE \E deleted \in SUBSET (DeleteTargets(image_list) \cap {f.path : f \in images_dir}) :
                /\ images_dir' = {f \in images_dir : f.path \notin deleted}
                /\ \E q \in Listings({f \in images_dir : f.path \notin deleted}) :
                      image_list' = set_images(image_list, q)
                /\ last' = [CallRecord("action_delete_selected", None, <<>>, Cardinality(deleted)) EXCEPT
                                !.data = image_list, !.written = deleted]
    /\ ListUnchanged

InitList ==
    /\ InitCache
    /\ env = [cuda |-> FALSE, mps |-> FALSE]
    /\ pending = NoRequest

NextList ==
    \/ FileAppears
    \/ refresh_images
    \/ ListKey
    \/ action_delete_selected
    \/ Return

SpecList == InitList /\ [][NextList]_vars

\* C31: the cursor is 0 when the list is empty and otherwise an index of the
\* list; the selected set holds only indices of the list; after set_images
\* the cursor is 0 and the selection empty; and action_delete_selected
\* removes only files that the list it read shows at selected indices.
C31_ListConsistent ==
    /\ image_list.images = <<>> => image_list.cursor = 0
    /\ image_list.images # <<>> => image_list.cursor \in Indices(image_list)
    /\ image_list.selected \subseteq Indices(image_list)
    /\ last.op = "refresh_images" =>
          image_list.cursor = 0 /\ image_list.selected = {}
    /\ last.op = "action_delete_selected" =>
          /\ last.data.selected \subseteq Indices(last.data)
          /\ last.written \subseteq
                {last.data.images[k + 1] : k \in last.data.selected}
          /\ last.data.selected # {} =>
                image_list.cursor = 0 /\ image_list.selected = {}

\* C31 witness: of three images listed the last two were selected, the
\* cursor on the last, and both were deleted: the list shows one image
C31_Witness ==
    /\ last.op = "action_delete_selected"
    /\ Len(last.data.images) = 3
    /\ last.data.selected = {1, 2}
    /\ last.data.cursor = 2
    /\ Cardinality(last.written) = 2
    /\ Len(image_list.images) = 1


-----------------------------------------------------------------------------
(* SpecVideo: one video request. The images directory holds MaxFiles       *)
(* images, listed at on_mount; images are selected, v is pressed, captions *)
(* are typed and the editor is dismissed by a button or a key; the video   *)
(* worker then calls create_slideshow.                                     *)

\* what is typed into a caption input
CaptionTexts == {<<>>, << " " >>, << " ", "h", "i" >>}

VideoUnchanged ==
    UNCHANGED <<_pipeline, _current_model, _model_loaded, heap, loads, env,
                images_dir, now, pending, prev, ui, _log_messages>>

InitVideo ==
    /\ _pipeline = NoPipeline
    /\ _current_model = None
    /\ _model_loaded = FALSE
    /\ heap = {}
    /\ loads = 0
    /\ images_dir = {[path |-> k] : k \in 1..MaxFiles}
    /\ now = 0
    /\ prev = Summary("start", None, <<>>, TRUE)
    /\ last = Idle
    /\ ui = Mounted
    /\ image_list = set_images(EmptyImageList, [k \in 1..MaxFiles |-> k])
    /\ caption_editor = NoEditor
    /\ slideshow = <<>>
    /\ _log_messages = <<>>
    /\ env = [cuda |-> FALSE, mps |-> FALSE]
    /\ pending = NoRequest

\* action_create_video, lines 514-538 (v): without a selection the status
\* bar asks for one; otherwise the caption editor is pushed for the selected
\* paths. The record keeps the list the handler read.
press_create_video ==
    /\ last.op = "idle"
    /\ ~caption_editor.open
    /\ slideshow = <<>>
    /\ caption_editor' = IF image_list.selected = {} THEN caption_editor
                         ELSE CaptionEditor(selected_paths(image_list))
    /\ last' = [CallRecord("action_create_video", None, <<>>, image_list.selected # {}) EXCEPT
                    !.data = image_list]
    /\ UNCHANGED <<image_list, slideshow>>
    /\ VideoUnchanged

\* text is typed into the input of image i of the editor
TypeCaption ==
    /\ last.op = "idle"
    /\ caption_editor.open
    /\ \E i \in 1..Len(caption_editor.images), text \in CaptionTexts :
        caption_editor' = [caption_editor EXCEPT !.inputs[i] = text]
    /\ UNCHANGED <<image_list, slideshow, last>>
    /\ VideoUnchanged

\* the editor is dismissed and handle_captions (lines 529-536) gets the
\* result: None sets the status, a list creates the video worker. The record
\* keeps the editor as it was, the button or key, and the result.
DismissEditor ==
    /\ last.op = "idle"
    /\ caption_editor.open
    /\ \E button \in Dismissals :
        LET result == DismissedWith(caption_editor, button)
        IN  /\ slideshow' = IF result.some
                            THEN Append(slideshow, VideoWorker(caption_editor.images, result.list))
                            ELSE slideshow
            /\ last' = [CallRecord("handle_captions", None, <<>>, result) EXCEPT
                            !.data = caption_editor, !.aspect_ratio = button]
    /\ caption_editor' = NoEditor
    /\ UNCHANGED image_list
    /\ VideoUnchanged

\* the thread of video worker k runs to video.create_slideshow, lines
\* 543-554
VideoWorkerCalls ==
    /\ \E k \in 1..Len(slideshow) :
        /\ ~slideshow[k].called
        /\ slideshow' = [slideshow EXCEPT ![k].called = TRUE,
                                           ![k].passed = slideshow_captions(slideshow[k].captions)]
    /\ UNCHANGED <<image_list, caption_editor, last>>
    /\ VideoUnchanged

NextVideo ==
    \/ ListKey
    \/ press_create_video
    \/ TypeCaption
    \/ DismissEditor
    \/ VideoWorkerCalls
    \/ Return

SpecVideo == InitVideo /\ [][NextVideo]_vars

\* some caption of the list is not blank
SomeCaption(list) == \E i \in 1..Len(list) : strip(list[i]) # <<>>

\* C32: the editor is open only for a non-empty list of images, the selected
\* ones in list order, and v with nothing selected opens none; a video
\* worker exists only after a dismissal with a list, for the images of the
\* editor and with that list; Cancel and Escape give None and create no
\* worker; Create gives one stripped caption per image, in order; Skip gives
\* the empty list; and create_slideshow gets the captions when one of them
\* is not blank and None otherwise.
C32_VideoAfterCaptions ==
    /\ caption_editor.open =>
          caption_editor.images # <<>> /\ slideshow = <<>>
    /\ last.op = "action_create_video" =>
          /\ caption_editor.open <=> last.data.selected # {}
          /\ caption_editor.open =>
                /\ Len(caption_editor.images) = Cardinality(last.data.selected)
                /\ \A i, j \in 1..Len(caption_editor.images) :
                      i < j =>
                        \E a, b \in last.data.selected :
                            /\ a < b
                            /\ caption_editor.images[i] = last.data.images[a + 1]
                            /\ caption_editor.images[j] = last.data.images[b + 1]
    /\ last.op = "handle_captions" =>
          /\ last.aspect_ratio \in {"cancel-btn", "escape"} =>
                last.ret = Nothing /\ slideshow = <<>>
          /\ last.aspect_ratio \in {"create-btn", "ctrl+enter"} =>
                /\ last.ret.some
                /\ Len(last.ret.list) = Len(last.data.images)
                /\ \A i \in 1..Len(last.ret.list) :
                      last.ret.list[i] = strip(last.data.inputs[i])
          /\ last.aspect_ratio = "skip-btn" => last.ret = Just(<<>>)
          /\ last.ret.some =>
                /\ Len(slideshow) = 1
                /\ slideshow[1].paths = last.data.images
                /\ slideshow[1].captions = last.ret.list
    /\ \A k \in 1..Len(slideshow) :
          /\ slideshow[k].paths # <<>>
          /\ slideshow[k].called =>
                slideshow[k].passed =
                    IF SomeCaption(slideshow[k].captions)
                    THEN Just(slideshow[k].captions) ELSE Nothing
          /\ ~slideshow[k].called => slideshow[k].passed = Nothing

\* C32 witness: Create for two images whose captions are both blank: the
\* worker got two empty captions and passed None to create_slideshow
C32_Witness ==
    /\ Len(slideshow) = 1
    /\ slideshow[1].called
    /\ Len(slideshow[1].paths) = 2
    /\ slideshow[1].captions = << <<>>, <<>> >>
    /\ slideshow[1].passed = Nothing

\* C32 witness: Create with a caption for the second of two images
C32_WitnessCaptions ==
    /\ Len(slideshow) = 1
    /\ slideshow[1].called
    /\ slideshow[1].paths = <<1, 3>>
    /\ slideshow[1].passed = Just(<< <<>>, <<"h", "i">> >>)


-----------------------------------------------------------------------------
(* SpecLog: any sequence of log, clear_logs and get_recent_logs calls. The *)
(* messages are numbered in the order they are logged; pending counts the  *)
(* messages logged so far and those logged since the log was last cleared. *)

MaxLogged == 103

\* the counts get_recent_logs is called with
Counts == {-1, 0, 1, 2, MAX_LOG_MESSAGES, MAX_LOG_MESSAGES + 1}

LogUnchanged ==
    UNCHANGED <<_pipeline, _current_model, _model_loaded, heap, loads, env,
                images_dir, now, prev, ui, image_list, caption_editor, slideshow>>

InitLog ==
    /\ _pipeline = NoPipeline
    /\ _current_model = None
    /\ _model_loaded = FALSE
    /\ heap = {}
    /\ loads = 0
    /\ images_dir = {}
    /\ now = 0
    /\ prev = Summary("start", None, <<>>, TRUE)
    /\ last = Idle
    /\ ui = Mounted
    /\ image_list = EmptyImageList
    /\ caption_editor = NoEditor
    /\ slideshow = <<>>
    /\ _log_messages = <<>>
    /\ env = [cuda |-> FALSE, mps |-> FALSE]
    /\ pending = [logged |-> 0, since |-> 0]

\* a call of log, lines 47-60 (through debug, info, warning or error, lines
\* 63-80), with the next message
Log ==
    /\ last.op = "idle"
    /\ pending.logged < MaxLogged
    /\ _log_messages' = log(_log_messages, now, pending.logged + 1)
    /\ pending' = [logged |-> pending.logged + 1, since |-> pending.since + 1]
    /\ UNCHANGED last
    /\ LogUnchanged

\* a call of clear_logs, lines 88-90
ClearLogs ==
    /\ last.op = "idle"
    /\ _log_messages # <<>>
    /\ _log_messages' = clear_logs(_log_messages)
    /\ pending' = [pending EXCEPT !.since = 0]
    /\ UNCHANGED last
    /\ LogUnchanged

\* a call of get_recent_logs(count), lines 83-85; the record keeps the count,
\* the log before the call and the list returned
GetRecentLogs ==
    /\ last.op = "idle"
    /\ \E count \in Counts :
        last' = [CallRecord("get_recent_logs", None, <<>>,
                            get_recent_logs(_log_messages, count)) EXCEPT
                    !.width = count, !.data = _log_messages]
    /\ UNCHANGED <<_log_messages, pending>>
    /\ LogUnchanged

NextLog ==
    \/ Log
    \/ ClearLogs
    \/ GetRecentLogs
    \/ Return

SpecLog == InitLog /\ [][NextLog]_vars

\* the smaller of two numbers
Smaller(a, b) == IF a < b THEN a ELSE b

\* C33: the log holds at most 100 entries, as many as were logged since it
\* was last cleared when those are fewer, and they are the messages logged
\* last, oldest first; get_recent_logs(n) with n >= 1 returns the last
\* min(n, size) entries of the log in their order and leaves the log as it
\* was.
C33_BoundedFifo ==
    /\ Len(_log_messages) <= 100
    /\ Len(_log_messages) = Smaller(pending.since, 100)
    /\ \A i \in 1..Len(_log_messages) :
          _log_messages[i].message = pending.logged - Len(_log_messages) + i
    /\ (last.op = "get_recent_logs" /\ last.width >= 1) =>
          /\ _log_messages = last.data
          /\ Len(last.ret) = Smaller(last.width, Len(last.data))
          /\ \A i \in 1..Len(last.ret) :
                last.ret[i] = last.data[Len(last.data) - Len(last.ret) + i]

\* C33 witness: more than 100 messages were logged since the log was
\* cleared, the oldest were evicted, and get_recent_logs(2) returned the two
\* logged last
C33_Witness ==
    /\ pending.since > 100
    /\ Len(_log_messages) = 100
    /\ _log_messages[1].message = pending.logged - 99
    /\ _log_messages[1].message > 1
    /\ last.op = "get_recent_logs"
    /\ last.width = 2
    /\ Len(last.ret) = 2
    /\ last.ret[2].message = pending.logged

=============================================================================
